---- MODULE Spec2Model ----
(***************************************************************************)
(* Backtesting and confidence-scoring engine                               *)
(* (src/backtesting/engine.py, engine_vectorbt.py, app/engine.py).         *)
(*                                                                         *)
(* The specifications of the module:                                       *)
(*   SpecConfidence - calculate_confidence of the three engine variants    *)
(*                    applied to arbitrary metric bundles;                 *)
(*   Spec           - one backtest run on a PriceSeries / SignalSeries:    *)
(*                    run_market, run_ml (the bar-by-bar simulation of     *)
(*                    vbt.Portfolio.from_signals and the metrics built     *)
(*                    from it) and build_graphs;                           *)
(*   SpecRerun      - the workflow of run_backtest on an engine of         *)
(*                    engine.py, run twice on the same table;              *)
(*   SpecEngine     - run_market and run_ml of one engine of engine.py in  *)
(*                    any order, on a table that may lack a Signal column; *)
(*   SpecAnySignal  - one backtest run on a table that may be empty and    *)
(*                    may hold Signal values outside {-1, 0, +1};          *)
(*   SpecEndpoint   - one call of the endpoint /api/v1/backtest/run;       *)
(*   SpecAlerts     - create_alert, stop_alert and clear_all_alerts of the *)
(*                    alerts service (src/alerts/main.py);                 *)
(*   SpecRunBacktest - one call of BacktestEngine.run_backtest: signal     *)
(*                    API, local loader, engine run;                       *)
(*   SpecLoader     - one call of load_historical_data                     *)
(*                    (src/app/data_loader.py).                            *)
(***************************************************************************)
EXTENDS Integers, Naturals, Sequences, FiniteSets, TLC

VARIABLES
    ml_metrics,      \* SpecConfidence: the ml_metrics argument (sharpe_ratio, cagr_pct)
    market_metrics,  \* SpecConfidence: the market_metrics argument
    score,           \* SpecConfidence: variant -> value returned, NotCalled before the call
    Close,           \* Spec: self.df["Close"], one price per date
    Signal,          \* Spec: self.df["Signal"], one of -1, 0, +1 per date
    pf,              \* Spec: state of the from_signals simulation inside run_ml
    market,          \* Spec: what run_market returned
    ml,              \* Spec: what run_ml returned
    graphs,          \* Spec: what build_graphs returned
    table,           \* the caller's table: its Close and Signal columns and column names
    columns,         \* self.df.columns (the table holds other columns the engine never reads)
    degenerate_sharpe, \* the Sharpe ratio this build of the library reports for a zero or undefined deviation
    confidence,      \* SpecRerun: what calculate_confidence returned for the run
    first,           \* SpecRerun: the results of the first run, once a second run has started
    service,         \* SpecEndpoint: the module that serves /api/v1/backtest/run
    response,        \* SpecEndpoint: what the endpoint answered
    scheduler,       \* SpecAlerts: the ids of the jobs the scheduler holds
    reply,           \* SpecAlerts: what the alerts endpoint called last answered
    backtest,        \* SpecRunBacktest: state of one BacktestEngine.run_backtest call
    loader           \* SpecLoader: state of one load_historical_data call

vars == <<ml_metrics, market_metrics, score, Close, Signal, pf, market, ml, graphs,
          table, columns, degenerate_sharpe, confidence, first, service, response,
          scheduler, reply, backtest, loader>>
confVars == <<ml_metrics, market_metrics, score>>
runVars == <<Close, Signal, pf, market, ml, graphs,
             table, columns, degenerate_sharpe, confidence, first, service, response,
             scheduler, reply, backtest, loader>>
sideVars == <<scheduler, reply, backtest, loader>>
otherVars == <<service, response, sideVars>>
restVars == <<table, columns, degenerate_sharpe, confidence, first>>

-----------------------------------------------------------------------------
(* Bounds *)

MaxMetric == 4      \* metric values of SpecConfidence range over -MaxNegMetric..MaxMetric
MaxNegMetric == 2
MaxLen == 4         \* longest PriceSeries of Spec
MaxLenAnySignal == 3  \* longest PriceSeries of SpecAnySignal
MaxLenEndpoint == 3   \* longest PriceSeries of SpecEndpoint
Prices == {1, 2}    \* Close values of Spec

-----------------------------------------------------------------------------
(* Program constants *)

INITIAL_CAPITAL == 1000000
TRADING_DAYS == 252
\* FEES = 0.002 = FEES_NUM / FEES_DEN
FEES_NUM == 1
FEES_DEN == 500
\* windows of the moving averages of _generate_signals
short_window == 20
long_window == 50

-----------------------------------------------------------------------------
(* Exact arithmetic on Python floats.  A value is a record                 *)
(*   [k, n, d]: k = "num" is the rational n/d in lowest terms, d > 0;      *)
(*   k = "nan", "inf", "ninf" are the IEEE specials; k = "none" is a       *)
(*   non-numeric value (None); k = "missing" is an absent dictionary key;  *)
(*   k = "raise" is an exception in flight.                                *)

Abs(x) == IF x < 0 THEN 0 - x ELSE x

Sign(x) == IF x < 0 THEN 0 - 1 ELSE IF x > 0 THEN 1 ELSE 0

RECURSIVE GCD(_, _)
GCD(a, b) == IF b = 0 THEN a ELSE GCD(b, a % b)

Special(kind) == [k |-> kind, n |-> 0, d |-> 1]
NaN == Special("nan")
PInf == Special("inf")
NInf == Special("ninf")
NoneVal == Special("none")
Missing == Special("missing")
Raise == Special("raise")

Num(a, b) ==
    LET s == IF b < 0 THEN 0 - 1 ELSE 1
        g == GCD(Abs(a), Abs(b))
    IN  [k |-> "num", n |-> (s * a) \div g, d |-> (s * b) \div g]

FInt(i) == Num(i, 1)

IsNum(x) == x.k = "num"
IsFloat(x) == x.k \in {"num", "nan", "inf", "ninf"}

\* sign of a float that is not NaN
FSign(x) == IF x.k = "inf" THEN 1 ELSE IF x.k = "ninf" THEN 0 - 1 ELSE Sign(x.n)

InfOfSign(s) == IF s > 0 THEN PInf ELSE NInf

\* a finite number, known exactly or by its sign ("pos", "neg")
IsFinite(x) == x.k \in {"num", "pos", "neg"}

\* x < y on floats; every comparison with NaN is False
FLess(x, y) ==
    IF x.k = "nan" \/ y.k = "nan" THEN FALSE
    ELSE IF x.k = "inf" \/ y.k = "ninf" THEN FALSE
    ELSE IF x.k = "ninf" \/ y.k = "inf" THEN TRUE
    ELSE x.n * y.d < y.n * x.d

FLessEq(x, y) ==
    IF x.k = "nan" \/ y.k = "nan" THEN FALSE
    ELSE x = y \/ FLess(x, y)

\* x * y: a TypeError on a non-number, IEEE rules otherwise
FMul(x, y) ==
    IF x.k = "raise" \/ y.k = "raise" THEN Raise
    ELSE IF ~IsFloat(x) \/ ~IsFloat(y) THEN Raise
    ELSE IF x.k = "nan" \/ y.k = "nan" THEN NaN
    ELSE IF IsNum(x) /\ IsNum(y) THEN Num(x.n * y.n, x.d * y.d)
    ELSE IF FSign(x) = 0 \/ FSign(y) = 0 THEN NaN
    ELSE InfOfSign(FSign(x) * FSign(y))

\* x / y: ZeroDivisionError when y == 0, a TypeError on a non-number
FDiv(x, y) ==
    IF x.k = "raise" \/ y.k = "raise" THEN Raise
    ELSE IF ~IsFloat(x) \/ ~IsFloat(y) THEN Raise
    ELSE IF IsNum(y) /\ y.n = 0 THEN Raise
    ELSE IF x.k = "nan" \/ y.k = "nan" THEN NaN
    ELSE IF IsNum(x) /\ IsNum(y) THEN Num(x.n * y.d, x.d * y.n)
    ELSE IF IsNum(x) THEN FInt(0)
    ELSE IF IsNum(y) THEN InfOfSign(FSign(x) * FSign(y))
    ELSE NaN

\* the builtin min(x, y): y when y < x, else x
PyMin(x, y) == IF FLess(y, x) THEN y ELSE x

\* the builtin max(x, y): y when y > x, else x
PyMax(x, y) == IF FLess(x, y) THEN y ELSE x

\* round(x, 2): the nearest multiple of 0.01, ties to even; NaN and the
\* infinities are returned unchanged
Round2(x) ==
    IF ~IsNum(x) THEN x
    ELSE LET a == Abs(x.n) * 100
             q == a \div x.d
             r == a % x.d
             h == IF 2 * r < x.d THEN q
                  ELSE IF 2 * r > x.d THEN q + 1
                  ELSE IF q % 2 = 0 THEN q ELSE q + 1
         IN  Num(Sign(x.n) * h, 100)

\* d[key] of a metrics dictionary: KeyError when the key is absent
GetItem(m, key) == IF m[key].k = "missing" THEN Raise ELSE m[key]

-----------------------------------------------------------------------------
(* Amounts of money.  The exact value of a portfolio after a few trades    *)
(* does not fit TLC's integers, so an amount is kept in factored form      *)
(*   [t, o, n, d]  =  INITIAL_CAPITAL x (1-FEES)^t / (1+FEES)^(t+o) x n/d  *)
(* with t the number of exit fees and t + o the number of entry fees the   *)
(* amount has gone through, and n/d (lowest terms) the product of the      *)
(* price ratios and fee rates it was scaled by.  No price of Prices has    *)
(* a prime factor of 499 or of 167 (501 = 3 x 167), so equal amounts have  *)
(* equal records.                                                          *)

OneMinusFeeNum == FEES_DEN - FEES_NUM   \* 1 - FEES = 499 / 500
OnePlusFeeNum == FEES_DEN + FEES_NUM    \* 1 + FEES = 501 / 500

Amt(t, o, n, d) ==
    IF n = 0 THEN [t |-> 0, o |-> 0, n |-> 0, d |-> 1]
    ELSE LET g == GCD(Abs(n), Abs(d))
         IN  [t |-> t, o |-> o, n |-> n \div g, d |-> d \div g]

Capital == Amt(0, 0, 1, 1)     \* INITIAL_CAPITAL
ZeroAmt == Amt(0, 0, 0, 1)

\* m x a / b
AmtScale(m, a, b) == Amt(m.t, m.o, m.n * a, m.d * b)

\* m / (1 + FEES) x FEES_DEN / FEES_DEN: what cash m buys after the entry fee
AmtDivOnePlusFee(m) == Amt(m.t, m.o + 1, m.n, m.d)

\* m x (1 - FEES): what a sale of m yields after the exit fee
AmtTimesOneMinusFee(m) == Amt(m.t + 1, m.o - 1, m.n, m.d)

\* m1 + m2 and m1 - m2 of amounts that went through the same fees
AmtAdd(m1, m2) ==
    IF m2.n = 0 THEN m1
    ELSE IF m1.n = 0 THEN m2
    ELSE Amt(m1.t, m1.o, m1.n * m2.d + m2.n * m1.d, m1.d * m2.d)

AmtSub(m1, m2) == AmtAdd(m1, [m2 EXCEPT !.n = 0 - m2.n])

RECURSIVE Pow(_, _)
Pow(b, e) == IF e <= 0 THEN 1 ELSE b * Pow(b, e - 1)

\* the fee factors of m1 / m2, as numerator and denominator
FeeQuotNum(m1, m2) ==
    Pow(OneMinusFeeNum, m1.t - m2.t) * Pow(FEES_DEN, m1.o - m2.o)
        * Pow(OnePlusFeeNum, (m2.t + m2.o) - (m1.t + m1.o))

FeeQuotDen(m1, m2) ==
    Pow(OneMinusFeeNum, m2.t - m1.t) * Pow(FEES_DEN, m2.o - m1.o)
        * Pow(OnePlusFeeNum, (m1.t + m1.o) - (m2.t + m2.o))

\* m1 / m2 as a float (m2 not zero)
AmtQuot(m1, m2) ==
    IF m1.n = 0 THEN FInt(0)
    ELSE LET g == GCD(Abs(m1.n * m2.d), Abs(m1.d * m2.n))
         IN  Num(FeeQuotNum(m1, m2) * ((m1.n * m2.d) \div g),
                 FeeQuotDen(m1, m2) * ((m1.d * m2.n) \div g))

\* a x s as a two-digit number in base 10000 (a < 2^31, s < 10000)
WideHi(a, s) == (a \div 10000) * s + ((a % 10000) * s) \div 10000
WideLo(a, s) == ((a % 10000) * s) % 10000

\* sign of a x s - b x r, computed without forming the products
WideCmp(a, s, b, r) ==
    IF WideHi(a, s) # WideHi(b, r) THEN Sign(WideHi(a, s) - WideHi(b, r))
    ELSE Sign(WideLo(a, s) - WideLo(b, r))

\* sign of m1 - m2 for positive amounts
AmtCmp(m1, m2) ==
    LET g == GCD(Abs(m1.n * m2.d), Abs(m1.d * m2.n))
    IN  WideCmp(FeeQuotNum(m1, m2), (m1.n * m2.d) \div g,
                FeeQuotDen(m1, m2), (m1.d * m2.n) \div g)

\* a float known by its sign only: the value is positive ("pos"), negative
\* ("neg") or exactly 0
OfSign(s) == IF s > 0 THEN Special("pos") ELSE IF s < 0 THEN Special("neg") ELSE FInt(0)

\* an amount free of fees, in currency units
Currency(m) == Num(INITIAL_CAPITAL * m.n, m.d)

-----------------------------------------------------------------------------
(* Series statistics (pandas) on sequences of exact numbers *)

LCM(a, b) == (a \div GCD(a, b)) * b

NumAdd(x, y) ==
    LET l == LCM(x.d, y.d)
    IN  Num(x.n * (l \div x.d) + y.n * (l \div y.d), l)

NumSub(x, y) == NumAdd(x, [y EXCEPT !.n = 0 - y.n])

NumMul(x, y) == Num(x.n * y.n, x.d * y.d)

RECURSIVE SeqSum(_)
SeqSum(xs) == IF xs = <<>> THEN FInt(0) ELSE NumAdd(Head(xs), SeqSum(Tail(xs)))

AllEqual(xs) == \A i, j \in 1..Len(xs) : xs[i] = xs[j]

\* Series.std() (ddof = 1), by its class: NaN for fewer than 2 samples,
\* 0 when all samples are equal, positive otherwise
StdClass(xs) ==
    IF Len(xs) < 2 THEN NaN
    ELSE IF AllEqual(xs) THEN FInt(0)
    ELSE Special("pos")

\* numpy float64 mean / std, by its class: 0 / 0 and x / NaN are NaN,
\* x / 0 is an infinity, otherwise the quotient has the sign of the mean
MeanOverStdClass(xs) ==
    LET std == StdClass(xs)
        total == SeqSum(xs)
    IN  IF std = NaN THEN NaN
        ELSE IF std = FInt(0)
             THEN (IF total.n = 0 THEN NaN ELSE InfOfSign(total.n))
        ELSE OfSign(total.n)

\* Close.pct_change().dropna(): entry j is the return of date j + 1
PctChange(close) ==
    [j \in 1..(Len(close) - 1) |-> Num(close[j + 1] - close[j], close[j])]

\* ((1 + returns).cumprod() x INITIAL_CAPITAL)[j]
RECURSIVE CumProdCapital(_, _)
CumProdCapital(returns, j) ==
    IF j = 0 THEN Capital
    ELSE LET f == NumAdd(FInt(1), returns[j])
         IN  AmtScale(CumProdCapital(returns, j - 1), f.n, f.d)

\* equity.cummax()[j]
RECURSIVE CumMax(_, _)
CumMax(equity, j) ==
    IF j = 1 THEN equity[1]
    ELSE LET m == CumMax(equity, j - 1)
         IN  IF AmtCmp(equity[j], m) > 0 THEN equity[j] ELSE m

\* ((equity - equity.cummax()) / equity.cummax()).min()
RECURSIVE DrawdownMin(_, _)
DrawdownMin(equity, j) ==
    LET dd == NumSub(AmtQuot(equity[j], CumMax(equity, j)), FInt(1))
    IN  IF j = 1 THEN dd ELSE PyMin(DrawdownMin(equity, j - 1), dd)

\* (x ** (1 / n_years) - 1) * 100 for x > 0 and n_years > 0, by its sign
AnnualisedPctClass(x) == OfSign(Sign(x.n - x.d))

-----------------------------------------------------------------------------
(* run_market *)

NoResult == [status |-> "none"]

\* no alert scheduled and no run_backtest or load_historical_data call made
NoSide ==
    /\ scheduler = {}
    /\ reply = NoResult
    /\ backtest = NoResult
    /\ loader = NoResult

\* a run_market that first drops the rows holding a NaN in any column of
\* self.df (the moving averages are NaN before their window is full)
RunMarket_DropNa(close) ==
    LET kept == IF "SMA_Long" \in columns THEN SubSeq(close, long_window, Len(close))
                ELSE IF "SMA_Short" \in columns THEN SubSeq(close, short_window, Len(close))
                ELSE close
        returns == PctChange(kept)
        equity == [j \in 1..Len(returns) |-> CumProdCapital(returns, j)]
    IN  IF Len(returns) = 0 THEN [status |-> "raised", error |-> "IndexError"]
        ELSE LET start_equity == equity[1]
                 end_equity == equity[Len(equity)]
                 growth == AmtQuot(end_equity, start_equity)
                 drawdown_min == DrawdownMin(equity, Len(equity))
             IN  [status |-> "ok",
                  metrics |->
                     [total_return_pct |-> NumMul(NumSub(growth, FInt(1)), FInt(100)),
                      cagr_pct |-> AnnualisedPctClass(growth),
                      volatility_pct |-> StdClass(returns),
                      sharpe_ratio |-> MeanOverStdClass(returns),
                      max_drawdown_pct |->
                          NumMul([drawdown_min EXCEPT !.n = Abs(@)], FInt(100))],
                  equity |-> equity,
                  \* the index of equity: the dates of returns, 2..Len(close)
                  index |-> [j \in 1..Len(returns) |-> j + 1]]

\* run_market on the Close column: the returned dictionary, or the
\* IndexError of equity.iloc[0] on an empty returns series
RunMarket(close) ==
    LET returns == PctChange(close)
        equity == [j \in 1..Len(returns) |-> CumProdCapital(returns, j)]
    IN  IF Len(returns) = 0 THEN [status |-> "raised", error |-> "IndexError"]
        ELSE LET start_equity == equity[1]
                 end_equity == equity[Len(equity)]
                 growth == AmtQuot(end_equity, start_equity)
                 drawdown_min == DrawdownMin(equity, Len(equity))
             IN  [status |-> "ok",
                  metrics |->
                     [total_return_pct |-> NumMul(NumSub(growth, FInt(1)), FInt(100)),
                      cagr_pct |-> AnnualisedPctClass(growth),
                      volatility_pct |-> StdClass(returns),
                      sharpe_ratio |-> MeanOverStdClass(returns),
                      max_drawdown_pct |->
                          NumMul([drawdown_min EXCEPT !.n = Abs(@)], FInt(100))],
                  equity |-> equity,
                  \* the index of equity: the dates of returns, 2..Len(close)
                  index |-> [j \in 1..Len(returns) |-> j + 1]]

-----------------------------------------------------------------------------
(* _generate_signals: the moving-average crossover used when the table has *)
(* no Signal column                                                        *)

\* close[j - window + 1] + ... + close[j], for j >= window
RECURSIVE RollingSum(_, _, _)
RollingSum(close, window, j) ==
    IF window = 0 THEN 0 ELSE close[j] + RollingSum(close, window - 1, j - 1)

\* the Signal column written by _generate_signals: 0 while the long average
\* is NaN (fewer than long_window rows so far), then +1 where the short
\* average is above the long one and -1 where it is not
GeneratedSignal(close) ==
    [j \in 1..Len(close) |->
        IF j < long_window THEN 0
        ELSE IF RollingSum(close, short_window, j) * long_window
                  > RollingSum(close, long_window, j) * short_window
        THEN 1 ELSE 0 - 1]

-----------------------------------------------------------------------------
(* run_ml: vbt.Portfolio.from_signals(close, entries, exits, init_cash,    *)
(* fees, freq) with the library's defaults: long only, no accumulation,    *)
(* every entry invests all cash at the bar's Close, every exit sells the   *)
(* whole position at the bar's Close.                                      *)

\* the Sharpe ratio the library reports when the standard deviation of the
\* returns is zero or undefined: not a finite number
DegenerateSharpe == {PInf, NaN}

NoEntry == [idx |-> 0, price |-> 0, fees |-> ZeroAmt]

\* a simulation that starts from the equity the previous run ended with
PortfolioStart_CarriedCash ==
    [pc |-> "sim", i |-> 1, position |-> "FLAT",
     cash |-> IF first.status = "ok" /\ first.ml.status = "ok"
              THEN first.ml.ml_metrics.total_equity_value ELSE Capital,
     size |-> ZeroAmt, entry |-> NoEntry, value |-> <<>>, trades |-> <<>>]

\* the simulation before the first bar
PortfolioStart ==
    [pc |-> "sim", i |-> 1, position |-> "FLAT", cash |-> Capital, size |-> ZeroAmt,
     entry |-> NoEntry, value |-> <<>>, trades |-> <<>>]

\* an order that pays no fee
OrderFees_None(size, price) == ZeroAmt

\* fees of an order of `size` shares at `price`
OrderFees(size, price) == AmtScale(size, price * FEES_NUM, FEES_DEN)

\* shares bought with all of `cash` at `price`: cash / (price x (1 + FEES))
BuySize(cash, price) == AmtDivOnePlusFee(AmtScale(cash, 1, price))

\* cash received for `size` shares sold at `price`: size x price x (1 - FEES)
SellProceeds(size, price) == AmtTimesOneMinusFee(AmtScale(size, price, 1))

\* a trade record: pnl = (exit_price - entry_price) x size - fees
Trade(entry, size, exit_idx, exit_price, exit_fees, status) ==
    [entry_idx |-> entry.idx, exit_idx |-> exit_idx,
     entry_price |-> entry.price, exit_price |-> exit_price,
     size |-> size, entry_fees |-> entry.fees, exit_fees |-> exit_fees,
     pnl |-> AmtSub(AmtSub(AmtScale(size, exit_price - entry.price, 1), entry.fees),
                    exit_fees),
     status |-> status]

\* entries = self.df["Signal"] == 1, with every non-zero signal taken as an entry
Entries_AnyNonZero(signal) == [j \in 1..Len(signal) |-> signal[j] # 0]

\* entries = self.df["Signal"] == 1
Entries(signal) == [j \in 1..Len(signal) |-> signal[j] = 1]

\* exits = self.df["Signal"] == -1
Exits(signal) == [j \in 1..Len(signal) |-> signal[j] = 0 - 1]

\* a simulation whose cash follows Close while no position is held
SimulateBar_ExposedWhileFlat(p, close, entries, exits) ==
    LET price == close[p.i]
        q == IF p.position = "FLAT" /\ entries[p.i]
             THEN LET size == BuySize(p.cash, price)
                  IN  [p EXCEPT !.position = "LONG", !.cash = ZeroAmt, !.size = size,
                                !.entry = [idx |-> p.i, price |-> price,
                                           fees |-> OrderFees(size, price)]]
             ELSE IF p.position = "LONG" /\ exits[p.i]
             THEN [p EXCEPT !.position = "FLAT",
                            !.cash = SellProceeds(p.size, price),
                            !.size = ZeroAmt,
                            !.entry = NoEntry,
                            !.trades = Append(@, Trade(p.entry, p.size, p.i, price,
                                                       OrderFees(p.size, price), "Closed"))]
             ELSE p
        val == IF q.position = "LONG" THEN AmtScale(q.size, price, 1)
               ELSE AmtScale(q.cash, price, 1)
    IN  [q EXCEPT !.i = p.i + 1, !.value = Append(@, val)]

\* one bar of the simulation: the order (if any) of bar p.i, then the
\* portfolio value at its Close
SimulateBar(p, close, entries, exits) ==
    LET price == close[p.i]
        q == IF p.position = "FLAT" /\ entries[p.i]
             THEN LET size == BuySize(p.cash, price)
                  IN  [p EXCEPT !.position = "LONG", !.cash = ZeroAmt, !.size = size,
                                !.entry = [idx |-> p.i, price |-> price,
                                           fees |-> OrderFees(size, price)]]
             ELSE IF p.position = "LONG" /\ exits[p.i]
             THEN [p EXCEPT !.position = "FLAT",
                            !.cash = SellProceeds(p.size, price),
                            !.size = ZeroAmt,
                            !.entry = NoEntry,
                            !.trades = Append(@, Trade(p.entry, p.size, p.i, price,
                                                       OrderFees(p.size, price), "Closed"))]
             ELSE p
        val == IF q.position = "LONG" THEN AmtScale(q.size, price, 1) ELSE q.cash
    IN  [q EXCEPT !.i = p.i + 1, !.value = Append(@, val)]

\* pf.trades.records_readable: the closed trades, then the position still
\* open at the last bar, valued at the last Close with no exit fee
TradeRecords(p, close) ==
    IF p.position = "LONG"
    THEN Append(p.trades, Trade(p.entry, p.size, Len(close), close[Len(close)],
                                ZeroAmt, "Open"))
    ELSE p.trades

\* pf.returns(): the first return is taken against init_cash
PortfolioReturns(value) ==
    [j \in 1..Len(value) |->
        NumSub(AmtQuot(value[j], IF j = 1 THEN Capital ELSE value[j - 1]), FInt(1))]

\* trades[trades["PnL"] > 0] and trades[trades["PnL"] < 0], as positions
WinningTrades(trades) == {j \in 1..Len(trades) : trades[j].pnl.n > 0}
LosingTrades(trades) == {j \in 1..Len(trades) : trades[j].pnl.n < 0}

\* the trades the library counts as closed
ClosedTrades(trades) == {j \in 1..Len(trades) : trades[j].status = "Closed"}

\* stats["Sharpe Ratio"]: the sign of the mean return, or `degenerate` when
\* the standard deviation is zero or undefined
SharpeStat(returns, degenerate) ==
    IF StdClass(returns) \in {NaN, FInt(0)} THEN degenerate
    ELSE OfSign(SeqSum(returns).n)

\* stats["Win Rate [%]"]: share of winning trades among the closed ones
WinRateStat(trades) ==
    IF ClosedTrades(trades) = {} THEN NaN
    ELSE Num(100 * Cardinality(ClosedTrades(trades) \cap WinningTrades(trades)),
             Cardinality(ClosedTrades(trades)))

\* the curve falls below its running peak at some date
Declines(equity) ==
    \E j \in 1..Len(equity) : AmtCmp(equity[j], CumMax(equity, j)) < 0

\* abs(stats["Max Drawdown [%]"]): the library takes the deepest of its
\* drawdown records, a positive percentage below 100 known here by its
\* sign, and has NaN when the curve never declines (no record)
MaxDrawdownStat(equity) ==
    IF Declines(equity) THEN Special("pos") ELSE NaN

\* stats["Profit Factor"]: the summed PnL of the winning closed trades over
\* the magnitude of the summed PnL of the losing ones, by its class; the
\* division is unguarded, so it is +inf without a losing trade and NaN
\* (0 / 0) without any closed trade that won or lost
ProfitFactorStat(trades) ==
    LET wins == ClosedTrades(trades) \cap WinningTrades(trades)
        losses == ClosedTrades(trades) \cap LosingTrades(trades)
    IN  IF losses = {} THEN (IF wins = {} THEN NaN ELSE PInf)
        ELSE IF wins = {} THEN FInt(0)
        ELSE Special("pos")

\* sum of Avg Exit Price - Avg Entry Price over the trades at positions `set`
RECURSIVE SumPriceMoves(_, _, _)
SumPriceMoves(trades, set, j) ==
    IF j = 0 THEN 0
    ELSE (IF j \in set THEN trades[j].exit_price - trades[j].entry_price ELSE 0)
            + SumPriceMoves(trades, set, j - 1)

\* avg_win_price / avg_loss_price: the mean price move of the trades at
\* positions `set`, 0.0 when there is none
AvgPriceMove(trades, set) ==
    IF set = {} THEN FInt(0)
    ELSE Num(SumPriceMoves(trades, set, Len(trades)), Cardinality(set))

\* what run_ml returns once the simulation has passed the last bar; on an
\* empty series equity.iloc[-1] has no element to return and raises
\* IndexError (if the library has not failed on the empty index before)
RunMl(p, close, degenerate) ==
    LET equity == p.value
        returns == PortfolioReturns(equity)
        trades == TradeRecords(p, close)
    IN  IF Len(close) = 0 THEN [status |-> "raised", error |-> "IndexError"] ELSE
        [status |-> "ok",
         ml_metrics |->
            [total_return_pct |-> OfSign(AmtCmp(equity[Len(equity)], Capital)),
             cagr_pct |-> OfSign(AmtCmp(equity[Len(equity)], equity[1])),
             volatility_pct |-> StdClass(returns),
             sharpe_ratio |-> SharpeStat(returns, degenerate),
             max_drawdown_pct |-> MaxDrawdownStat(equity),
             total_equity_value |-> equity[Len(equity)],
             total_trades |-> Len(trades),
             win_rate_pct |-> WinRateStat(trades)],
         trading_metrics |->
            [winning_trades |-> Cardinality(WinningTrades(trades)),
             losing_trades |-> Cardinality(LosingTrades(trades)),
             profit_factor |-> ProfitFactorStat(trades),
             avg_win_price |-> AvgPriceMove(trades, WinningTrades(trades)),
             avg_loss_price |-> AvgPriceMove(trades, LosingTrades(trades))],
         equity |-> equity,
         index |-> [j \in 1..Len(equity) |-> j],
         trades |-> trades]

-----------------------------------------------------------------------------
(* build_graphs *)

\* value / base, kept as the pair
Over(value, base) == [value |-> value, base |-> base]

\* the equity_curve list: one entry per position i of market["equity"]
EquityCurve(mk, m) ==
    [i \in 1..Len(mk.equity) |->
        [date |-> mk.index[i],
         market |-> Over(mk.equity[i], mk.equity[1]),
         ml |-> Over(m.equity[i], m.equity[1])]]

\* pnl_points of app/engine.py: four keys per trade
PnlPointsApp(m) ==
    [j \in 1..Len(m.trades) |->
        [entry_date |-> m.trades[j].entry_idx,
         exit_date |-> m.trades[j].exit_idx,
         pnl |-> m.trades[j].pnl,
         is_profit |-> m.trades[j].pnl.n > 0]]

\* pnl_points of engine_vectorbt.py: eight keys per trade; return_pct, the
\* trade's return x 100, is known by the sign of its pnl
PnlPoints(m) ==
    [j \in 1..Len(m.trades) |->
        [entry_date |-> m.trades[j].entry_idx,
         exit_date |-> m.trades[j].exit_idx,
         entry_price |-> m.trades[j].entry_price,
         exit_price |-> m.trades[j].exit_price,
         pnl |-> m.trades[j].pnl,
         return_pct |-> OfSign(Sign(m.trades[j].pnl.n)),
         direction |-> "Long",
         is_profit |-> m.trades[j].pnl.n > 0]]

RECURSIVE DatesWhere(_, _, _)
DatesWhere(signal, v, j) ==
    IF j > Len(signal) THEN <<>>
    ELSE (IF signal[j] = v THEN <<j>> ELSE <<>>) \o DatesWhere(signal, v, j + 1)

TradeMarks(close, signal) ==
    [dates |-> [j \in 1..Len(close) |-> j],
     close |-> close,
     buy_dates |-> DatesWhere(signal, 1, 1),
     sell_dates |-> DatesWhere(signal, 0 - 1, 1)]

BuildGraphs(mk, m, close, signal) ==
    [status |-> "ok",
     equity_curve |-> EquityCurve(mk, m),
     pnl_points |-> PnlPoints(m),
     trade_marks |-> TradeMarks(close, signal)]

\* build_graphs of app/engine.py
BuildGraphsApp(mk, m, close, signal) ==
    [status |-> "ok",
     equity_curve |-> EquityCurve(mk, m),
     pnl_points |-> PnlPointsApp(m),
     trade_marks |-> TradeMarks(close, signal)]

-----------------------------------------------------------------------------
(* calculate_confidence *)

\* engine.py BacktestEngine.calculate_confidence
CalculateConfidence(mlm, mkm) ==
    LET mkt_sharpe == GetItem(mkm, "sharpe_ratio")
        mkt_cagr == GetItem(mkm, "cagr_pct")
        ml_sharpe == GetItem(mlm, "sharpe_ratio")
        ml_cagr == GetItem(mlm, "cagr_pct")
        raw_confidence == FMul(FDiv(ml_sharpe, mkt_sharpe), FDiv(ml_cagr, mkt_cagr))
        normalized == FMul(FDiv(raw_confidence, FInt(2)), FInt(100))
        clamped == PyMax(FInt(0), PyMin(normalized, FInt(100)))
    IN  IF Raise \in {mkt_sharpe, mkt_cagr, ml_sharpe, ml_cagr} THEN FInt(0)
        ELSE IF ~IsFloat(mkt_sharpe) THEN FInt(0)
        ELSE IF FLessEq(mkt_sharpe, FInt(0)) THEN FInt(0)
        ELSE IF ~IsFloat(mkt_cagr) THEN FInt(0)
        ELSE IF FLessEq(mkt_cagr, FInt(0)) THEN FInt(0)
        ELSE IF normalized = Raise THEN FInt(0)
        ELSE Round2(clamped)

\* a calculate_confidence that scales raw confidence by 100 and not by 100 / 2
CalculateConfidenceVBT_NoHalving(mlm, mkm) ==
    LET mkt_sharpe == GetItem(mkm, "sharpe_ratio")
        mkt_cagr == GetItem(mkm, "cagr_pct")
        ml_sharpe == GetItem(mlm, "sharpe_ratio")
        ml_cagr == GetItem(mlm, "cagr_pct")
        raw_confidence == FMul(FDiv(ml_sharpe, mkt_sharpe), FDiv(ml_cagr, mkt_cagr))
        normalized == FMul(raw_confidence, FInt(100))
        clamped == PyMax(FInt(0), PyMin(normalized, FInt(100)))
    IN  IF Raise \in {mkt_sharpe, mkt_cagr, ml_sharpe, ml_cagr} THEN FInt(0)
        ELSE IF ~IsFloat(mkt_sharpe) THEN FInt(0)
        ELSE IF FLessEq(mkt_sharpe, FInt(0)) THEN FInt(0)
        ELSE IF ~IsFloat(mkt_cagr) THEN FInt(0)
        ELSE IF FLessEq(mkt_cagr, FInt(0)) THEN FInt(0)
        ELSE IF normalized = Raise THEN FInt(0)
        ELSE Round2(clamped)

\* engine_vectorbt.py BacktestEngineVBT.calculate_confidence
CalculateConfidenceVBT(mlm, mkm) ==
    LET mkt_sharpe == GetItem(mkm, "sharpe_ratio")
        mkt_cagr == GetItem(mkm, "cagr_pct")
        ml_sharpe == GetItem(mlm, "sharpe_ratio")
        ml_cagr == GetItem(mlm, "cagr_pct")
        raw_confidence == FMul(FDiv(ml_sharpe, mkt_sharpe), FDiv(ml_cagr, mkt_cagr))
        normalized == FMul(FDiv(raw_confidence, FInt(2)), FInt(100))
        clamped == PyMax(FInt(0), PyMin(normalized, FInt(100)))
    IN  IF Raise \in {mkt_sharpe, mkt_cagr, ml_sharpe, ml_cagr} THEN FInt(0)
        ELSE IF ~IsFloat(mkt_sharpe) THEN FInt(0)
        ELSE IF FLessEq(mkt_sharpe, FInt(0)) THEN FInt(0)
        ELSE IF ~IsFloat(mkt_cagr) THEN FInt(0)
        ELSE IF FLessEq(mkt_cagr, FInt(0)) THEN FInt(0)
        ELSE IF normalized = Raise THEN FInt(0)
        ELSE Round2(clamped)

\* app/engine.py BacktestEngine.calculate_confidence: no benchmark guard,
\* and the clamp is min(max(x, 0), 100)
CalculateConfidenceApp(mlm, mkm) ==
    LET raw == FMul(FDiv(GetItem(mlm, "sharpe_ratio"), GetItem(mkm, "sharpe_ratio")),
                    FDiv(GetItem(mlm, "cagr_pct"), GetItem(mkm, "cagr_pct")))
        scaled == FMul(FDiv(raw, FInt(2)), FInt(100))
        normalized == PyMin(PyMax(scaled, FInt(0)), FInt(100))
    IN  IF scaled = Raise THEN FInt(0)
        ELSE Round2(normalized)

\* sign of a metric known exactly or by its class
ClassSign(x) ==
    IF x.k \in {"inf", "pos"} THEN 1
    ELSE IF x.k \in {"ninf", "neg"} THEN 0 - 1
    ELSE Sign(x.n)

IsInfinite(x) == x.k \in {"inf", "ninf"}

\* x / y for y > 0, by its class: a finite x over an infinity is 0, an
\* infinity over an infinity is NaN
ClassOverPositive(x, y) ==
    IF x = NaN \/ y = NaN THEN NaN
    ELSE IF IsInfinite(y) THEN (IF IsInfinite(x) THEN NaN ELSE FInt(0))
    ELSE x

\* engine.py BacktestEngine.calculate_confidence on the metrics of a run,
\* which the model knows by their class: 0.0 behind the guard, for a NaN and
\* for a non-positive raw confidence, 100.0 for an infinite one, and
\* otherwise the rounded clamp of a positive number ("pos")
ConfidenceOfRun(mlm, mkm) ==
    LET mkt_sharpe == mkm.sharpe_ratio
        mkt_cagr == mkm.cagr_pct
        sharpe_edge == ClassOverPositive(mlm.sharpe_ratio, mkt_sharpe)
        cagr_edge == ClassOverPositive(mlm.cagr_pct, mkt_cagr)
    IN  IF mkt_sharpe # NaN /\ ClassSign(mkt_sharpe) <= 0 THEN FInt(0)
        ELSE IF mkt_cagr # NaN /\ ClassSign(mkt_cagr) <= 0 THEN FInt(0)
        ELSE IF sharpe_edge = NaN \/ cagr_edge = NaN THEN FInt(0)
        ELSE IF ClassSign(sharpe_edge) = 0 /\ IsInfinite(cagr_edge) THEN FInt(0)
        ELSE IF IsInfinite(sharpe_edge) /\ ClassSign(cagr_edge) = 0 THEN FInt(0)
        ELSE IF ClassSign(sharpe_edge) * ClassSign(cagr_edge) <= 0 THEN FInt(0)
        ELSE IF IsInfinite(sharpe_edge) \/ IsInfinite(cagr_edge) THEN FInt(100)
        ELSE Special("pos")

\* x / y by class: ZeroDivisionError when y == 0
ClassDiv(x, y) ==
    IF y = FInt(0) THEN Raise
    ELSE IF x = NaN \/ y = NaN THEN NaN
    ELSE IF IsInfinite(x) /\ IsInfinite(y) THEN NaN
    ELSE IF IsInfinite(y) THEN FInt(0)
    ELSE IF IsInfinite(x) THEN InfOfSign(ClassSign(x) * ClassSign(y))
    ELSE OfSign(ClassSign(x) * ClassSign(y))

\* x * y by class: 0 x infinity is NaN
ClassMul(x, y) ==
    IF x = Raise \/ y = Raise THEN Raise
    ELSE IF x = NaN \/ y = NaN THEN NaN
    ELSE IF IsInfinite(x) \/ IsInfinite(y)
         THEN (IF ClassSign(x) * ClassSign(y) = 0 THEN NaN
               ELSE InfOfSign(ClassSign(x) * ClassSign(y)))
    ELSE OfSign(ClassSign(x) * ClassSign(y))

\* app/engine.py BacktestEngine.calculate_confidence on the metrics of a
\* run, by class: 0.0 for an exception, NaN for a NaN (min(max(nan, 0), 100)
\* is nan), 0 for a non-positive raw value, 100 for +inf, and otherwise the
\* rounded clamp of a positive number ("pos")
ConfidenceOfRunApp(mlm, mkm) ==
    LET raw == ClassMul(ClassDiv(mlm.sharpe_ratio, mkm.sharpe_ratio),
                        ClassDiv(mlm.cagr_pct, mkm.cagr_pct))
    IN  IF raw = Raise THEN FInt(0)
        ELSE IF raw = NaN THEN NaN
        ELSE IF ClassSign(raw) <= 0 THEN FInt(0)
        ELSE IF IsInfinite(raw) THEN FInt(100)
        ELSE Special("pos")

-----------------------------------------------------------------------------
(* SpecConfidence: calculate_confidence on arbitrary metric bundles *)

NotCalled == Special("notcalled")

Variants == {"engine", "vbt", "app"}

MetricKeys == {"sharpe_ratio", "cagr_pct"}

\* values a metric can hold: absent, None, NaN, +inf, and the integers of the bound
MetricValues ==
    {Missing, NoneVal, NaN, PInf} \cup {FInt(i) : i \in (0 - MaxNegMetric)..MaxMetric}

\* placeholders of the run variables while only calculate_confidence is exercised
NoRun ==
    /\ Close = <<>>
    /\ Signal = <<>>
    /\ pf = [pc |-> "idle"]
    /\ market = NoResult
    /\ ml = NoResult
    /\ graphs = NoResult
    /\ table = [Close |-> <<>>, Signal |-> <<>>, columns |-> {}]
    /\ columns = {}
    /\ degenerate_sharpe = NaN
    /\ confidence = NotCalled
    /\ first = NoResult
    /\ service = "none"
    /\ response = NoResult
    /\ NoSide

InitConfidence ==
    /\ ml_metrics \in [MetricKeys -> MetricValues]
    /\ market_metrics \in [MetricKeys -> MetricValues]
    /\ score = [v \in Variants |-> NotCalled]
    /\ NoRun

calculate_confidence ==
    /\ score["engine"] = NotCalled
    /\ score' = [score EXCEPT !["engine"] = CalculateConfidence(ml_metrics, market_metrics)]
    /\ UNCHANGED <<ml_metrics, market_metrics, runVars>>

calculate_confidence_vbt ==
    /\ score["vbt"] = NotCalled
    /\ score' = [score EXCEPT !["vbt"] = CalculateConfidenceVBT(ml_metrics, market_metrics)]
    /\ UNCHANGED <<ml_metrics, market_metrics, runVars>>

calculate_confidence_app ==
    /\ score["app"] = NotCalled
    /\ score' = [score EXCEPT !["app"] = CalculateConfidenceApp(ml_metrics, market_metrics)]
    /\ UNCHANGED <<ml_metrics, market_metrics, runVars>>

NextConfidence ==
    \/ calculate_confidence
    \/ calculate_confidence_vbt
    \/ calculate_confidence_app

SpecConfidence == InitConfidence /\ [][NextConfidence]_vars

-----------------------------------------------------------------------------
(* Claims about calculate_confidence *)

InRange0To100(x) == IsNum(x) /\ FLessEq(FInt(0), x) /\ FLessEq(x, FInt(100))

AllNumeric ==
    \A key \in MetricKeys : IsNum(ml_metrics[key]) /\ IsNum(market_metrics[key])

BenchmarkNonPositive ==
    \/ IsFloat(market_metrics["sharpe_ratio"]) /\ FLessEq(market_metrics["sharpe_ratio"], FInt(0))
    \/ IsFloat(market_metrics["cagr_pct"]) /\ FLessEq(market_metrics["cagr_pct"], FInt(0))

\* C1: calculate_confidence of every engine variant returns a number in
\* [0, 100], never NaN, whatever the two metric bundles hold.
C1_ScoreInRange ==
    \A v \in Variants : score[v] # NotCalled => InRange0To100(score[v])

\* C2: when the benchmark's sharpe_ratio or cagr_pct is <= 0, every engine
\* variant returns exactly 0.0 whatever the strategy's metrics are (stated
\* for bundles of numbers; NaN and missing metrics are C1 and C4).
C2_NonPositiveBenchmarkIsZero ==
    \A v \in Variants :
        (score[v] # NotCalled /\ AllNumeric /\ BenchmarkNonPositive) => score[v] = FInt(0)

BenchmarkPositive ==
    \A key \in MetricKeys :
        IsNum(market_metrics[key]) /\ market_metrics[key].n > 0

\* raw_edge = RawN(..) / RawD(..) of numeric bundles with a positive benchmark
RawN(mlm, mkm) ==
    mlm["sharpe_ratio"].n * mlm["cagr_pct"].n * mkm["sharpe_ratio"].d * mkm["cagr_pct"].d

RawD(mlm, mkm) ==
    mlm["sharpe_ratio"].d * mlm["cagr_pct"].d * mkm["sharpe_ratio"].n * mkm["cagr_pct"].n

\* s is raw_edge / 2 x 100 rounded to 2 decimals: a multiple of 0.01 no
\* further than 0.005 from 50 x rn / rd
IsHalfEdgeRounded(s, rn, rd) ==
    /\ IsNum(s)
    /\ 100 % s.d = 0
    /\ 200 * Abs(s.n * rd - 50 * rn * s.d) <= s.d * rd

NumericPositiveBenchmarkBundles ==
    [ml : [MetricKeys -> {FInt(i) : i \in (0 - MaxNegMetric)..MaxMetric}],
     mk : [MetricKeys -> {FInt(i) : i \in 1..MaxMetric}]]

\* C3: with a positive benchmark the score is 50.00 when the strategy ties the
\* benchmark, 100.00 when raw_edge >= 2, raw_edge / 2 x 100 rounded to 2
\* decimals in between, and it is non-decreasing in raw_edge.
C3_Calibration ==
    \A v \in Variants :
        (score[v] # NotCalled /\ AllNumeric /\ BenchmarkPositive) =>
            LET rn == RawN(ml_metrics, market_metrics)
                rd == RawD(ml_metrics, market_metrics)
            IN  /\ ml_metrics = market_metrics => score[v] = FInt(50)
                /\ rn >= 2 * rd => score[v] = FInt(100)
                /\ (0 <= rn /\ rn < 2 * rd) => IsHalfEdgeRounded(score[v], rn, rd)
                /\ v = "vbt" =>
                      \A b \in NumericPositiveBenchmarkBundles :
                          RawN(b.ml, b.mk) * rd <= rn * RawD(b.ml, b.mk)
                              => FLessEq(CalculateConfidenceVBT(b.ml, b.mk), score[v])

\* the score of a strategy strictly between no edge and a double edge
C3_Witness ==
    /\ score["vbt"] # NotCalled
    /\ AllNumeric /\ BenchmarkPositive
    /\ RawN(ml_metrics, market_metrics) > RawD(ml_metrics, market_metrics)
    /\ RawN(ml_metrics, market_metrics) < 2 * RawD(ml_metrics, market_metrics)
    /\ score["vbt"] = FInt(75)

\* the ratio computation fails: a zero benchmark metric, a missing key, a
\* non-numeric or a NaN metric
RatioFails ==
    \/ \E key \in MetricKeys : market_metrics[key] = FInt(0)
    \/ \E key \in MetricKeys :
          \/ ml_metrics[key] \in {Missing, NoneVal, NaN}
          \/ market_metrics[key] \in {Missing, NoneVal, NaN}

\* C4: calculate_confidence never raises; on every input on which the ratio
\* computation fails it returns the float 0.0, not an exception and not NaN.
C4_FailureGivesZero ==
    \A v \in Variants :
        (score[v] # NotCalled /\ RatioFails) => score[v] = FInt(0)

-----------------------------------------------------------------------------
(* Spec: one backtest run *)

SignalValues == {0 - 1, 0, 1}

\* placeholders of the calculate_confidence variables during a run
NoConfidence ==
    /\ ml_metrics = [key \in MetricKeys |-> Missing]
    /\ market_metrics = [key \in MetricKeys |-> Missing]
    /\ score = [v \in Variants |-> NotCalled]

\* tables of `len` rows with a Signal column
Tables(len) ==
    [Close : [1..len -> Prices], Signal : [1..len -> SignalValues],
     columns : {{"Close", "Signal"}}]

\* __init__: self.df = df.copy(); nothing has run yet
NewEngine ==
    /\ Close = table.Close
    /\ Signal = table.Signal
    /\ columns = table.columns
    /\ degenerate_sharpe \in DegenerateSharpe
    /\ pf = [pc |-> "idle"]
    /\ market = NoResult
    /\ ml = NoResult
    /\ graphs = NoResult
    /\ confidence = NotCalled
    /\ first = NoResult
    /\ NoConfidence

\* no endpoint is involved: the engine is driven directly
NoEndpoint ==
    /\ service = "none"
    /\ response = NoResult
    /\ NoSide

Init ==
    /\ \E len \in 1..MaxLen : table \in Tables(len)
    /\ NewEngine
    /\ NoEndpoint

run_market ==
    /\ market = NoResult
    /\ market' = RunMarket(Close)
    /\ UNCHANGED <<Close, Signal, pf, ml, graphs, confVars, otherVars, restVars>>

\* run_ml up to the call of from_signals
run_ml_begin ==
    /\ pf.pc = "idle"
    /\ pf' = PortfolioStart
    /\ UNCHANGED <<Close, Signal, market, ml, graphs, confVars, otherVars, restVars>>

\* from_signals processes one bar
from_signals_bar ==
    /\ pf.pc = "sim"
    /\ pf.i <= Len(Close)
    /\ pf' = SimulateBar(pf, Close, Entries(Signal), Exits(Signal))
    /\ UNCHANGED <<Close, Signal, market, ml, graphs, confVars, otherVars, restVars>>

\* run_ml after from_signals: stats, trades and the returned dictionary
run_ml_finish ==
    /\ pf.pc = "sim"
    /\ pf.i > Len(Close)
    /\ ml' = RunMl(pf, Close, degenerate_sharpe)
    /\ pf' = [pf EXCEPT !.pc = "done"]
    /\ UNCHANGED <<Close, Signal, market, graphs, confVars, otherVars, restVars>>

build_graphs ==
    /\ market.status = "ok"
    /\ ml.status = "ok"
    /\ graphs = NoResult
    /\ graphs' = BuildGraphs(market, ml, Close, Signal)
    /\ UNCHANGED <<Close, Signal, pf, market, ml, confVars, otherVars, restVars>>

Next ==
    \/ run_market
    \/ run_ml_begin
    \/ from_signals_bar
    \/ run_ml_finish
    \/ build_graphs

Spec == Init /\ [][Next]_vars

-----------------------------------------------------------------------------
(* SpecRerun: the workflow of run_backtest (run_market, run_ml,             *)
(* calculate_confidence) on a BacktestEngine of engine.py, run a second    *)
(* time on the same engine or on a new engine built from the same table    *)

\* tables of `len` rows without a Signal column
TablesWithoutSignal(len) ==
    [Close : [1..len -> Prices], Signal : {<<>>}, columns : {{"Close"}}]

InitRerun ==
    /\ \E len \in 1..MaxLen : table \in Tables(len) \cup TablesWithoutSignal(len)
    /\ NewEngine
    /\ NoEndpoint

\* an __init__ that keeps the caller's table itself: self.df = df
SelfDfIsCallersTable_NoCopy == TRUE

\* __init__ stores df.copy(): self.df and the caller's table are two objects
SelfDfIsCallersTable == FALSE

\* the caller's table after self.df got the columns `cols` and the Signal
\* column `sig`
CallersTable(cols, sig) ==
    IF SelfDfIsCallersTable THEN [table EXCEPT !.columns = cols, !.Signal = sig]
    ELSE table

\* run_ml of engine.py up to the call of from_signals: _generate_signals
\* writes the Signal and the two moving-average columns into self.df when
\* the Signal column is missing
run_ml_generate ==
    /\ market.status = "ok"
    /\ pf.pc = "idle"
    /\ IF "Signal" \in columns
       THEN UNCHANGED <<Signal, columns>>
       ELSE /\ Signal' = GeneratedSignal(Close)
            /\ columns' = columns \cup {"SMA_Short", "SMA_Long", "Signal"}
    /\ table' = CallersTable(columns', Signal')
    /\ pf' = PortfolioStart
    /\ UNCHANGED <<Close, market, ml, graphs, confVars, otherVars, degenerate_sharpe,
                   confidence, first>>

run_backtest_confidence ==
    /\ market.status = "ok"
    /\ ml.status = "ok"
    /\ confidence = NotCalled
    /\ confidence' = ConfidenceOfRun(ml.ml_metrics, market.metrics)
    /\ UNCHANGED <<Close, Signal, pf, market, ml, graphs, confVars, otherVars, table, columns,
                   degenerate_sharpe, first>>

\* the workflow has returned or raised
WorkflowOver == confidence # NotCalled \/ market.status = "raised"

FirstResults ==
    [status |-> "ok", market |-> market, ml |-> ml, confidence |-> confidence]

\* the caller starts the workflow again on the same engine
run_again ==
    /\ first = NoResult
    /\ WorkflowOver
    /\ first' = FirstResults
    /\ pf' = [pc |-> "idle"]
    /\ market' = NoResult
    /\ ml' = NoResult
    /\ confidence' = NotCalled
    /\ UNCHANGED <<Close, Signal, graphs, confVars, otherVars, table, columns, degenerate_sharpe>>

\* the caller builds a new engine from its table and starts the workflow again
run_again_new_engine ==
    /\ first = NoResult
    /\ WorkflowOver
    /\ first' = FirstResults
    /\ Signal' = table.Signal
    /\ columns' = table.columns
    /\ pf' = [pc |-> "idle"]
    /\ market' = NoResult
    /\ ml' = NoResult
    /\ confidence' = NotCalled
    /\ UNCHANGED <<Close, graphs, confVars, otherVars, table, degenerate_sharpe>>

NextRerun ==
    \/ run_market
    \/ run_ml_generate
    \/ from_signals_bar
    \/ run_ml_finish
    \/ run_backtest_confidence
    \/ run_again
    \/ run_again_new_engine

SpecRerun == InitRerun /\ [][NextRerun]_vars

-----------------------------------------------------------------------------
(* SpecEngine: run_market and run_ml of one BacktestEngine of engine.py,   *)
(* called in any order and interleaved, _generate_signals advancing one    *)
(* statement at a time                                                     *)

\* the Signal column after line 34 of _generate_signals: +1 where the short
\* average is above the long one, still 0 elsewhere
SignalAfterLine34(close) ==
    [j \in 1..Len(close) |-> IF GeneratedSignal(close)[j] = 1 THEN 1 ELSE 0]

\* run_ml is called: _generate_signals returns at once when the Signal
\* column exists and starts writing at line 30 when it does not
run_ml_call ==
    /\ pf.pc = "idle"
    /\ pf' = IF "Signal" \in columns THEN PortfolioStart ELSE [pc |-> "gen", line |-> 30]
    /\ UNCHANGED <<Close, Signal, market, ml, graphs, confVars, otherVars, restVars>>

\* one statement of _generate_signals; after the last one run_ml goes on to
\* from_signals
generate_signals_line ==
    /\ pf.pc = "gen"
    /\ \/ /\ pf.line = 30
          /\ columns' = columns \cup {"SMA_Short"}
          /\ pf' = [pf EXCEPT !.line = 31]
          /\ UNCHANGED Signal
       \/ /\ pf.line = 31
          /\ columns' = columns \cup {"SMA_Long"}
          /\ pf' = [pf EXCEPT !.line = 33]
          /\ UNCHANGED Signal
       \/ /\ pf.line = 33
          /\ columns' = columns \cup {"Signal"}
          /\ Signal' = [j \in 1..Len(Close) |-> 0]
          /\ pf' = [pf EXCEPT !.line = 34]
       \/ /\ pf.line = 34
          /\ Signal' = SignalAfterLine34(Close)
          /\ pf' = [pf EXCEPT !.line = 35]
          /\ UNCHANGED columns
       \/ /\ pf.line = 35
          /\ Signal' = GeneratedSignal(Close)
          /\ pf' = PortfolioStart
          /\ UNCHANGED columns
    /\ table' = CallersTable(columns', Signal')
    /\ UNCHANGED <<Close, market, ml, graphs, confVars, otherVars, degenerate_sharpe,
                   confidence, first>>

NextEngine ==
    \/ run_market
    \/ run_ml_call
    \/ generate_signals_line
    \/ from_signals_bar
    \/ run_ml_finish

SpecEngine == InitRerun /\ [][NextEngine]_vars

-----------------------------------------------------------------------------
(* SpecAnySignal: one backtest run on a table that may be empty and whose  *)
(* Signal column may hold values other than -1, 0 and +1                   *)

\* a Signal value outside {-1, 0, +1}
OutOfRangeSignals == {2}

TablesAnySignal(len) ==
    [Close : [1..len -> Prices],
     Signal : [1..len -> SignalValues \cup OutOfRangeSignals],
     columns : {{"Close", "Signal"}}]

InitAnySignal ==
    /\ \E len \in 0..MaxLenAnySignal : table \in TablesAnySignal(len)
    /\ NewEngine
    /\ NoEndpoint

SpecAnySignal == InitAnySignal /\ [][Next]_vars

-----------------------------------------------------------------------------
(* SpecEndpoint: one call of POST /api/v1/backtest/run, served by          *)
(* api/backtesting_api.py (BacktestEngineVBT) or by backtesting/main.py    *)
(* (BacktestEngine of app/engine.py), on the table the loader returned     *)

\* "vbt": api/backtesting_api.py; "app": backtesting/main.py
Services == {"vbt", "app"}

InitEndpoint ==
    /\ \E len \in 1..MaxLenEndpoint : table \in Tables(len)
    /\ NewEngine
    /\ service \in Services
    /\ response = NoResult
    /\ NoSide

\* ml = engine.run_ml(), reached once run_market has returned
handler_run_ml ==
    /\ market.status = "ok"
    /\ run_ml_begin

\* confidence = engine.calculate_confidence(...)
handler_confidence ==
    /\ market.status = "ok"
    /\ ml.status = "ok"
    /\ confidence = NotCalled
    /\ confidence' = IF service = "vbt"
                     THEN ConfidenceOfRun(ml.ml_metrics, market.metrics)
                     ELSE ConfidenceOfRunApp(ml.ml_metrics, market.metrics)
    /\ UNCHANGED <<Close, Signal, pf, market, ml, graphs, confVars, otherVars, table,
                   columns, degenerate_sharpe, first>>

\* equity_curve, pnl_graph, trade_visual = engine.build_graphs(market, ml)
handler_build_graphs ==
    /\ confidence # NotCalled
    /\ graphs = NoResult
    /\ graphs' = IF service = "vbt"
                 THEN BuildGraphs(market, ml, Close, Signal)
                 ELSE BuildGraphsApp(market, ml, Close, Signal)
    /\ UNCHANGED <<Close, Signal, pf, market, ml, confVars, restVars, service, response, sideVars>>

\* the dictionary the handler returns
Payload ==
    [confidence_score |-> confidence,
     ml_metrics |-> ml.ml_metrics,
     market_metrics |-> market.metrics,
     trading_metrics |-> ml.trading_metrics,
     equity_curve |-> graphs.equity_curve,
     pnl_graph |-> graphs.pnl_points,
     trade_visualization |-> graphs.trade_marks]

MlFloatKeys ==
    {"total_return_pct", "cagr_pct", "volatility_pct", "sharpe_ratio",
     "max_drawdown_pct", "win_rate_pct"}

TradingFloatKeys == {"profit_factor", "avg_win_price", "avg_loss_price"}

\* the floats of a payload that the model keeps as float records
PayloadFloats(payload) ==
    {payload.confidence_score}
        \cup {payload.ml_metrics[key] : key \in MlFloatKeys}
        \cup {payload.market_metrics[key] : key \in DOMAIN payload.market_metrics}
        \cup {payload.trading_metrics[key] : key \in TradingFloatKeys}

\* the framework renders the returned dictionary with
\* json.dumps(allow_nan=False): a NaN or an infinity makes it raise and the
\* caller gets status 500, otherwise the caller gets the payload
Render(payload) ==
    IF \E x \in PayloadFloats(payload) : ~IsFinite(x)
    THEN [status |-> "error", code |-> 500]
    ELSE [status |-> "ok", payload |-> payload]

handler_return ==
    /\ graphs.status = "ok"
    /\ response = NoResult
    /\ response' = Render(Payload)
    /\ UNCHANGED <<Close, Signal, pf, market, ml, graphs, confVars, restVars, service, sideVars>>

\* run_market raised (an IndexError, not a ValueError): backtesting/main.py
\* turns it into HTTPException(500), api/backtesting_api.py re-raises it and
\* the framework answers 500
handler_error ==
    /\ market.status = "raised"
    /\ response = NoResult
    /\ response' = [status |-> "error", code |-> 500]
    /\ UNCHANGED <<Close, Signal, pf, market, ml, graphs, confVars, restVars, service, sideVars>>

NextEndpoint ==
    \/ run_market
    \/ handler_run_ml
    \/ from_signals_bar
    \/ run_ml_finish
    \/ handler_confidence
    \/ handler_build_graphs
    \/ handler_return
    \/ handler_error

SpecEndpoint == InitEndpoint /\ [][NextEndpoint]_vars

-----------------------------------------------------------------------------
(* SpecAlerts: the alerts service (alerts/main.py): create_alert,          *)
(* stop_alert and clear_all_alerts on one scheduler. A string is the       *)
(* sequence of its characters.                                             *)

\* the largest number of jobs the scheduler holds
MaxJobs == 3

Digits == <<"0", "1", "2", "3", "4", "5", "6", "7", "8", "9">>

IsDigit(c) == \E k \in 1..Len(Digits) : Digits[k] = c
DigitValue(c) == (CHOOSE k \in 1..Len(Digits) : Digits[k] = c) - 1

\* str.split(sep): the parts of `s` between the occurrences of `sep`
RECURSIVE Split(_, _)
Split(s, sep) ==
    IF \A k \in 1..Len(s) : s[k] # sep THEN <<s>>
    ELSE LET k == CHOOSE k \in 1..Len(s) :
                      s[k] = sep /\ \A h \in 1..(k - 1) : s[h] # sep
         IN  <<SubSeq(s, 1, k - 1)>> \o Split(SubSeq(s, k + 1, Len(s)), sep)

\* int(s) raises ValueError unless s is a run of digits (of the characters
\* of AlertTimes only the digits make an integer literal)
IsIntLiteral(s) == Len(s) > 0 /\ \A k \in 1..Len(s) : IsDigit(s[k])

RECURSIVE IntOf(_)
IntOf(s) ==
    IF Len(s) = 0 THEN 0
    ELSE 10 * IntOf(SubSeq(s, 1, Len(s) - 1)) + DigitValue(s[Len(s)])

\* hour, minute = map(int, time_str.split(':'))
ParseTime(time_str) ==
    LET parts == Split(time_str, ":")
    IN  IF \E k \in 1..Len(parts) : k <= 3 /\ ~IsIntLiteral(parts[k]) THEN [status |-> "raised", error |-> "ValueError"]
        ELSE IF Len(parts) # 2 THEN [status |-> "raised", error |-> "ValueError"]
        ELSE [status |-> "ok", hour |-> IntOf(parts[1]), minute |-> IntOf(parts[2])]

\* f"{n:02d}"
Format02d(n) ==
    IF n < 10 THEN <<"0", Digits[n + 1]>>
    ELSE IF n < 100 THEN <<Digits[(n \div 10) + 1], Digits[(n % 10) + 1]>>
    ELSE <<Digits[(n \div 100) + 1], Digits[((n \div 10) % 10) + 1], Digits[(n % 10) + 1]>>

\* base_id = f"{email}_{ticker}"
BaseId(email, ticker) == email \o <<"_">> \o ticker

\* job_id = f"{base_id}_{hour:02d}{minute:02d}"
JobId(email, ticker, hour, minute) ==
    BaseId(email, ticker) \o <<"_">> \o Format02d(hour) \o Format02d(minute)

\* the scheduler's cron trigger accepts hours 0..23 and minutes 0..59
CronFieldsValid(hour, minute) == hour \in 0..23 /\ minute \in 0..59

\* str.startswith(prefix)
StartsWith(s, prefix) == Len(prefix) <= Len(s) /\ SubSeq(s, 1, Len(prefix)) = prefix

\* the job belongs to the user/ticker pair
OfPair(job, email, ticker) == job.email = email /\ job.ticker = ticker

\* the users, the tickers ("TC" begins with "T") and the alert_time strings
\* of the requests
Emails == {<<"u">>, <<"v">>}
Tickers == {<<"T">>, <<"T", "C">>}
AlertTimes ==
    { <<"0", "9", ":", "3", "0">>,
      <<"9", ":", "3", "0">>,
      <<"1", "0", ":", "0", "0">>,
      <<"2", "4", ":", "0", "0">>,
      <<"0", "9", "3", "0">>,
      <<"0", "9", ":", "3", "0", ":", "0", "0">>,
      <<"a", "b", ":", "c", "d">>,
      <<"9", ":">>,
      <<>> }

\* everything the backtest engine and its endpoint own
engineVars == <<confVars, Close, Signal, pf, market, ml, graphs, restVars, service, response>>

InitAlerts ==
    /\ NoConfidence
    /\ NoRun

\* POST /create-alert: the HTTPException(400) of the inner handler is raised
\* inside the outer try, whose `except Exception` turns every exception,
\* that one included, into HTTPException(500)
create_alert(email, ticker, time_str) ==
    LET parsed == ParseTime(time_str)
        job == [id |-> JobId(email, ticker, parsed.hour, parsed.minute),
                email |-> email, ticker |-> ticker,
                hour |-> parsed.hour, minute |-> parsed.minute]
    IN  /\ IF parsed.status = "raised"
           THEN /\ reply' = [endpoint |-> "create-alert", status |-> "error", code |-> 500,
                             cause |-> "HTTPException(400)"]
                /\ UNCHANGED scheduler
           ELSE IF ~CronFieldsValid(parsed.hour, parsed.minute)
           THEN /\ reply' = [endpoint |-> "create-alert", status |-> "error", code |-> 500,
                             cause |-> "ValueError"]
                /\ UNCHANGED scheduler
           ELSE /\ \/ Cardinality(scheduler) < MaxJobs
                   \/ \E old \in scheduler : old.id = job.id
                /\ scheduler' = {old \in scheduler : old.id # job.id} \cup {job}
                /\ reply' = [endpoint |-> "create-alert", status |-> "success", code |-> 200,
                             cause |-> "none"]
        /\ UNCHANGED <<engineVars, backtest, loader>>

\* DELETE /stop-alert/{user_email}/{ticker_name}
stop_alert(user_email, ticker_name) ==
    LET base_id == BaseId(user_email, ticker_name)
        matching == {job \in scheduler : StartsWith(job.id, base_id)}
    IN  /\ scheduler' = scheduler \ matching
        /\ reply' = [endpoint |-> "stop-alert",
                     status |-> IF matching # {} THEN "success" ELSE "warning",
                     code |-> 200, cause |-> "none"]
        /\ UNCHANGED <<engineVars, backtest, loader>>

\* DELETE /clear-all-alerts
clear_all_alerts ==
    /\ scheduler' = {}
    /\ reply' = [endpoint |-> "clear-all-alerts", status |-> "success", code |-> 200,
                 cause |-> "none"]
    /\ UNCHANGED <<engineVars, backtest, loader>>

NextAlerts ==
    \/ \E email \in Emails, ticker \in Tickers, time_str \in AlertTimes :
           create_alert(email, ticker, time_str)
    \/ \E email \in Emails, ticker \in Tickers : stop_alert(email, ticker)
    \/ clear_all_alerts

SpecAlerts == InitAlerts /\ [][NextAlerts]_vars

-----------------------------------------------------------------------------
(* SpecRunBacktest: one call of BacktestEngine.run_backtest (engine.py):   *)
(* the request to the signal API, the fallback to the local loader and the *)
(* engine run on the table obtained                                        *)

\* the longest table the signal API or the local loader delivers
MaxLenBacktest == 2

\* what the request to the signal API comes to: the request raises, the
\* status is not 200, 'rows' is missing or empty, the rows are records
\* without any field (a frame with no column), the rows lack 'date' (the
\* frame is built, the KeyError at the date conversion is caught), or the
\* rows are complete
ApiOutcomes ==
    {"exception", "non200", "empty_rows", "blank_rows", "malformed_rows", "rows"}

\* load_historical_data returns a table with rows or raises (data_loader.py 84-85)
LoaderOutcomes == {"raises", "table"}

NoFrame == [kind |-> "None", empty |-> TRUE, has_close |-> FALSE]
Frame(empty, has_close) == [kind |-> "DataFrame", empty |-> empty, has_close |-> has_close]

\* df after the try block of step 1
FrameFromApi(outcome) ==
    CASE outcome = "rows" -> Frame(FALSE, TRUE)
      [] outcome = "malformed_rows" -> Frame(FALSE, FALSE)
      [] outcome = "blank_rows" -> Frame(TRUE, FALSE)
      [] OTHER -> NoFrame

\* a fallback taken only when no frame was built
NeedsLocalData_NoneOnly(df) == df.kind = "None"

\* if df is None or df.empty
NeedsLocalData(df) == df.kind = "None" \/ df.empty

InitRunBacktest ==
    /\ \E len \in 1..MaxLenBacktest : table \in Tables(len)
    /\ Close = <<>>
    /\ Signal = <<>>
    /\ columns = {}
    /\ degenerate_sharpe \in DegenerateSharpe
    /\ pf = [pc |-> "idle"]
    /\ market = NoResult
    /\ ml = NoResult
    /\ graphs = NoResult
    /\ confidence = NotCalled
    /\ first = NoResult
    /\ NoConfidence
    /\ service = "none"
    /\ response = NoResult
    /\ scheduler = {}
    /\ reply = NoResult
    /\ loader = NoResult
    /\ \E api \in ApiOutcomes, local \in LoaderOutcomes :
          backtest = [pc |-> "api", api |-> api, local |-> local, df |-> NoFrame,
                      loader_called |-> FALSE, engine_df |-> NoFrame,
                      result |-> NoResult]

\* step 1: requests.post to the signal API inside try/except Exception
request_signal_api ==
    /\ backtest.pc = "api"
    /\ backtest' = [backtest EXCEPT !.pc = "fallback", !.df = FrameFromApi(backtest.api)]
    /\ UNCHANGED <<engineVars, scheduler, reply, loader>>

\* step 2: the local loader, called when step 1 left no usable frame
fallback_to_local ==
    /\ backtest.pc = "fallback"
    /\ backtest' =
          IF ~NeedsLocalData(backtest.df) THEN [backtest EXCEPT !.pc = "analyze"]
          ELSE IF backtest.local = "raises"
          THEN [backtest EXCEPT !.pc = "done", !.loader_called = TRUE,
                                !.result = [status |-> "raised", error |-> "ValueError"]]
          ELSE [backtest EXCEPT !.pc = "analyze", !.loader_called = TRUE,
                                !.df = Frame(FALSE, TRUE)]
    /\ UNCHANGED <<engineVars, scheduler, reply, loader>>

\* step 3: engine = BacktestEngine(df); on a frame without a Close column
\* run_market raises KeyError, on an empty frame it raises IndexError
new_engine ==
    /\ backtest.pc = "analyze"
    /\ IF backtest.df.has_close /\ ~backtest.df.empty
       THEN /\ backtest' = [backtest EXCEPT !.pc = "engine", !.engine_df = backtest.df]
            /\ Close' = table.Close
            /\ Signal' = table.Signal
            /\ columns' = table.columns
       ELSE /\ backtest' = [backtest EXCEPT
                               !.pc = "done", !.engine_df = backtest.df,
                               !.result = [status |-> "raised",
                                           error |-> IF backtest.df.has_close
                                                     THEN "IndexError" ELSE "KeyError"]]
            /\ UNCHANGED <<Close, Signal, columns>>
    /\ UNCHANGED <<confVars, pf, market, ml, graphs, table, degenerate_sharpe, confidence,
                   first, service, response, scheduler, reply, loader>>

\* market_res = engine.run_market()
engine_run_market ==
    /\ backtest.pc = "engine"
    /\ run_market

\* ml_res = engine.run_ml()
engine_run_ml ==
    /\ backtest.pc = "engine"
    /\ market.status = "ok"
    /\ run_ml_begin

\* the Metrics object is returned, or the engine's exception is raised again
run_backtest_return ==
    /\ backtest.pc = "engine"
    /\ \/ market.status = "raised"
       \/ market.status = "ok" /\ ml.status \in {"ok", "raised"}
    /\ backtest' =
          [backtest EXCEPT
              !.pc = "done",
              !.result = IF market.status = "raised" THEN market
                         ELSE IF ml.status = "raised" THEN ml
                         ELSE [status |-> "ok"]]
    /\ confidence' = IF market.status = "ok" /\ ml.status = "ok"
                     THEN ConfidenceOfRun(ml.ml_metrics, market.metrics)
                     ELSE confidence
    /\ UNCHANGED <<confVars, Close, Signal, pf, market, ml, graphs, table, columns,
                   degenerate_sharpe, first, service, response, scheduler, reply, loader>>

NextRunBacktest ==
    \/ request_signal_api
    \/ fallback_to_local
    \/ new_engine
    \/ engine_run_market
    \/ engine_run_ml
    \/ from_signals_bar
    \/ run_ml_finish
    \/ run_backtest_return

SpecRunBacktest == InitRunBacktest /\ [][NextRunBacktest]_vars

-----------------------------------------------------------------------------
(* SpecLoader: one call of load_historical_data (app/data_loader.py). A    *)
(* table is abstracted to whether it has rows and to its column names.     *)

required == {"Open", "High", "Low", "Close", "Volume"}

\* column sets of the tables the sources deliver
StandardColumns == required \cup {"Signal"}
LowerCaseColumns == {"open", "high", "low", "close", "volume", "signal"}
PriceColumns == {"Open", "High", "Low", "Price", "Volume"}
NoVolumeColumns == {"Open", "High", "Low", "Close"}
\* PipelineAdapter._standardize_columns: no pipeline column maps to Signal
PipelineColumns == required \cup {"Ticker", "Return", "SMA_20", "SMA_50", "RSI_14", "MACD"}

EmptyTable == [rows |-> FALSE, columns |-> {}]
TableWith(cols) == [rows |-> TRUE, columns |-> cols]

\* df.empty
IsEmpty(df) == ~df.rows \/ df.columns = {}

\* c.lower() of a column name
Lower(c) ==
    CASE c \in {"Open", "open"} -> "open"
      [] c \in {"High", "high"} -> "high"
      [] c \in {"Low", "low"} -> "low"
      [] c \in {"Close", "close"} -> "close"
      [] c \in {"Volume", "volume"} -> "volume"
      [] c \in {"Signal", "signal"} -> "signal"
      [] c = "Price" -> "price"
      [] OTHER -> c

\* rename_map of the column standardisation
RenameMapKeys == {"close", "open", "high", "low", "volume", "signal"}
RenameMap(k) ==
    CASE k = "close" -> "Close"
      [] k = "open" -> "Open"
      [] k = "high" -> "High"
      [] k = "low" -> "Low"
      [] k = "volume" -> "Volume"
      [] k = "signal" -> "Signal"

\* df.rename(columns=final_rename)
Standardize(cols) ==
    {IF Lower(c) \in RenameMapKeys THEN RenameMap(Lower(c)) ELSE c : c \in cols}

\* the validation and repair after the sources: the table returned, or
\* status "raised" for the ValueError of an empty table or a missing column
Validate(df) ==
    LET renamed == Standardize(df.columns)
        repaired == IF "Close" \notin renamed /\ "Price" \in renamed
                    THEN (renamed \ {"Price"}) \cup {"Close"} ELSE renamed
        missing == required \ repaired
    IN  IF IsEmpty(df) THEN [status |-> "raised", df |-> EmptyTable]
        ELSE IF missing # {} THEN [status |-> "raised", df |-> EmptyTable]
        ELSE [status |-> "ok", df |-> TableWith(repaired \cup {"Signal"})]

\* the sources in the order of the code
Sources == <<"pipeline", "cache", "yfinance", "fallback">>

\* what each source holds for the ticker
PipelineOutcomes == {[status |-> "raised", df |-> EmptyTable],
                     [status |-> "ok", df |-> TableWith(PipelineColumns)]}
Absent == [exists |-> FALSE, df |-> EmptyTable]
Files(tables) == [exists : {TRUE}, df : tables]
CacheOutcomes ==
    {Absent} \cup Files({EmptyTable, TableWith(required), TableWith(StandardColumns)})
YFinanceOutcomes == {EmptyTable, TableWith(required)}
FallbackOutcomes ==
    {Absent} \cup Files({EmptyTable, TableWith(StandardColumns), TableWith(LowerCaseColumns),
                          TableWith(PriceColumns), TableWith(NoVolumeColumns)})

InitLoader ==
    /\ NoConfidence
    /\ Close = <<>>
    /\ Signal = <<>>
    /\ pf = [pc |-> "idle"]
    /\ market = NoResult
    /\ ml = NoResult
    /\ graphs = NoResult
    /\ table = [Close |-> <<>>, Signal |-> <<>>, columns |-> {}]
    /\ columns = {}
    /\ degenerate_sharpe = NaN
    /\ confidence = NotCalled
    /\ first = NoResult
    /\ service = "none"
    /\ response = NoResult
    /\ scheduler = {}
    /\ reply = NoResult
    /\ backtest = NoResult
    /\ \E use_pipeline \in BOOLEAN, available \in BOOLEAN, ticker \in BOOLEAN,
          pipeline \in PipelineOutcomes, cache \in CacheOutcomes,
          yfinance \in YFinanceOutcomes, fallback \in FallbackOutcomes :
          loader = [pc |-> "get_pipeline_data",
                    use_pipeline |-> use_pipeline, available |-> available,
                    ticker |-> ticker, pipeline |-> pipeline, cache |-> cache,
                    yfinance |-> yfinance, fallback |-> fallback,
                    df |-> EmptyTable, consulted |-> <<>>, yielded |-> <<>>,
                    cache_written |-> FALSE, result |-> [status |-> "none", df |-> EmptyTable]]

\* the source was consulted and yielded `df`
Consult(l, source, df) ==
    [l EXCEPT !.consulted = Append(@, source), !.yielded = Append(@, ~IsEmpty(df)),
              !.df = df]

\* lines 27-34: the pipeline table, when it has rows, is returned at once
get_pipeline_data ==
    /\ loader.pc = "get_pipeline_data"
    /\ loader' =
          IF ~loader.use_pipeline THEN [loader EXCEPT !.pc = "load_from_pipeline"]
          ELSE IF loader.pipeline.status = "ok"
          THEN [Consult(loader, "pipeline", loader.pipeline.df) EXCEPT
                   !.pc = "done", !.result = loader.pipeline]
          ELSE [Consult(loader, "pipeline", EmptyTable) EXCEPT !.pc = "load_from_pipeline"]
    /\ UNCHANGED <<engineVars, scheduler, reply, backtest>>

\* lines 52-57: load_from_pipeline is defined nowhere; the NameError is
\* caught and df stays empty
load_from_pipeline ==
    /\ loader.pc = "load_from_pipeline"
    /\ loader' = [loader EXCEPT !.pc = "cache"]
    /\ UNCHANGED <<engineVars, scheduler, reply, backtest>>

\* lines 60-67: the per-ticker CSV of data/historical
local_cache ==
    /\ loader.pc = "cache"
    /\ loader' =
          IF IsEmpty(loader.df) /\ loader.ticker /\ loader.cache.exists
          THEN [Consult(loader, "cache", loader.cache.df) EXCEPT !.pc = "yfinance"]
          ELSE [loader EXCEPT !.pc = "yfinance"]
    /\ UNCHANGED <<engineVars, scheduler, reply, backtest>>

\* lines 70-74: the download, cached when it has rows
load_from_yfinance ==
    /\ loader.pc = "yfinance"
    /\ loader' =
          IF IsEmpty(loader.df) /\ loader.ticker
          THEN [Consult(loader, "yfinance", loader.yfinance) EXCEPT
                   !.pc = "fallback", !.cache_written = ~IsEmpty(loader.yfinance)]
          ELSE [loader EXCEPT !.pc = "fallback"]
    /\ UNCHANGED <<engineVars, scheduler, reply, backtest>>

\* lines 77-81: the fallback CSV
fallback_csv ==
    /\ loader.pc = "fallback"
    /\ loader' =
          IF IsEmpty(loader.df) /\ loader.fallback.exists
          THEN [Consult(loader, "fallback", loader.fallback.df) EXCEPT !.pc = "validate"]
          ELSE [loader EXCEPT !.pc = "validate"]
    /\ UNCHANGED <<engineVars, scheduler, reply, backtest>>

\* lines 84-120: validation, column repair and the Signal column
validate ==
    /\ loader.pc = "validate"
    /\ loader' = [loader EXCEPT !.pc = "done", !.result = Validate(loader.df)]
    /\ UNCHANGED <<engineVars, scheduler, reply, backtest>>

NextLoader ==
    \/ get_pipeline_data
    \/ load_from_pipeline
    \/ local_cache
    \/ load_from_yfinance
    \/ fallback_csv
    \/ validate

SpecLoader == InitLoader /\ [][NextLoader]_vars

-----------------------------------------------------------------------------
(* Claims about one backtest run *)

\* the step is one bar of the simulation
BarStep == pf.pc = "sim" /\ pf'.pc = "sim" /\ pf'.i = pf.i + 1

\* C5: the position is FLAT or LONG at every date, starts FLAT, goes
\* FLAT->LONG only on Signal +1 and LONG->FLAT only on Signal -1, and a +1
\* while LONG, a -1 while FLAT and any 0 change nothing.
C5_PositionTransitions ==
    [][ /\ (pf.pc = "idle" /\ pf'.pc = "sim") => pf'.position = "FLAT"
        /\ BarStep =>
              /\ pf.position \in {"FLAT", "LONG"}
              /\ pf'.position \in {"FLAT", "LONG"}
              /\ (pf.position = "FLAT" /\ pf'.position = "LONG") => Signal[pf.i] = 1
              /\ (pf.position = "LONG" /\ pf'.position = "FLAT") => Signal[pf.i] = 0 - 1
              /\ (\/ Signal[pf.i] = 0
                  \/ Signal[pf.i] = 1 /\ pf.position = "LONG"
                  \/ Signal[pf.i] = 0 - 1 /\ pf.position = "FLAT")
                    => /\ pf'.position = pf.position
                       /\ pf'.cash = pf.cash
                       /\ pf'.size = pf.size
                       /\ pf'.entry = pf.entry
                       /\ pf'.trades = pf.trades ]_vars

\* a +1 arrived while the position was already LONG and changed nothing
C5_Witness ==
    /\ pf.pc = "sim"
    /\ pf.i > 2
    /\ pf.position = "LONG"
    /\ pf.entry.idx < pf.i - 1
    /\ Signal[pf.i - 1] = 1

\* C6: the benchmark equity curve starts at INITIAL_CAPITAL exactly and its
\* element i is INITIAL_CAPITAL x Close[i] / Close[0] (elements counted
\* from the first date).
C6_BenchmarkCurve ==
    market.status = "ok" =>
        /\ Currency(market.equity[1]) = FInt(INITIAL_CAPITAL)
        /\ \A j \in 1..Len(market.equity) :
              Currency(market.equity[j]) = Num(INITIAL_CAPITAL * Close[j], Close[1])

\* the value of a returned curve at a date, NoResult when the curve has no
\* value for it
ValueAt(res, date) ==
    IF \E j \in 1..Len(res.index) : res.index[j] = date
    THEN res.equity[CHOOSE j \in 1..Len(res.index) : res.index[j] = date]
    ELSE NoResult

\* C7: both equity curves hold one value per PriceSeries date, and every
\* equity_curve entry of build_graphs carries the market and the ml value
\* of its own date, with no date missing.
C7_CurvesAligned ==
    /\ (market.status = "ok" /\ ml.status = "ok") =>
          /\ market.index = [j \in 1..Len(Close) |-> j]
          /\ ml.index = [j \in 1..Len(Close) |-> j]
    /\ graphs.status = "ok" =>
          /\ \A i \in 1..Len(graphs.equity_curve) :
                LET e == graphs.equity_curve[i]
                IN  /\ e.market.value = ValueAt(market, e.date)
                    /\ e.ml.value = ValueAt(ml, e.date)
          /\ \A date \in 1..Len(Close) :
                \E i \in 1..Len(graphs.equity_curve) : graphs.equity_curve[i].date = date

NoBuySignal == \A j \in 1..Len(Signal) : Signal[j] # 1

\* C8: with no +1 in the SignalSeries run_ml reports total_trades == 0, an
\* equity curve equal to INITIAL_CAPITAL at every date, and sharpe_ratio == 0
\* and cagr_pct == 0 as finite numbers (stated for series of 2 rows or more).
C8_NoBuyIsFlat ==
    (ml.status = "ok" /\ NoBuySignal /\ Len(Close) >= 2) =>
        /\ ml.ml_metrics.total_trades = 0
        /\ \A j \in 1..Len(ml.equity) : ml.equity[j] = Capital
        /\ ml.ml_metrics.sharpe_ratio = FInt(0)
        /\ ml.ml_metrics.cagr_pct = FInt(0)

ZeroStd(returns) == Len(returns) >= 2 /\ AllEqual(returns)

\* C9: when the daily returns of an equity curve have zero standard
\* deviation, the sharpe_ratio of run_market and of run_ml is exactly 0 and
\* total_return_pct and max_drawdown_pct are 0.0.
C9_ZeroVarianceSharpe ==
    /\ (market.status = "ok" /\ ZeroStd(PctChange(Close))) =>
          /\ market.metrics.sharpe_ratio = FInt(0)
          /\ market.metrics.total_return_pct = FInt(0)
          /\ market.metrics.max_drawdown_pct = FInt(0)
    /\ (ml.status = "ok" /\ ZeroStd(PortfolioReturns(ml.equity))) =>
          /\ ml.ml_metrics.sharpe_ratio = FInt(0)
          /\ ml.ml_metrics.total_return_pct = FInt(0)

\* the equity just before the bar at which a trade was entered
EquityBefore(tr) == IF tr.entry_idx = 1 THEN Capital ELSE ml.equity[tr.entry_idx - 1]

\* C10: a closed trade pays FEES x traded notional at entry and again at
\* exit, its pnl is (exit_price - entry_price) x size minus both fees, which
\* is what the equity gained over the round trip; a round trip with equal
\* entry and exit Close has pnl < 0, and when it is the only trade
\* win_rate_pct is 0.
C10_RoundTripFees ==
    ml.status = "ok" =>
        /\ \A j \in 1..Len(ml.trades) :
              LET tr == ml.trades[j]
              IN  tr.status = "Closed" =>
                    /\ tr.entry_fees = AmtScale(tr.size, tr.entry_price * FEES_NUM, FEES_DEN)
                    /\ tr.exit_fees = AmtScale(tr.size, tr.exit_price * FEES_NUM, FEES_DEN)
                    /\ tr.pnl = AmtSub(AmtSub(AmtScale(tr.size, tr.exit_price - tr.entry_price, 1),
                                              tr.entry_fees), tr.exit_fees)
                    /\ Sign(tr.pnl.n) = AmtCmp(ml.equity[tr.exit_idx], EquityBefore(tr))
                    /\ tr.entry_price = tr.exit_price => tr.pnl.n < 0
        /\ (/\ Len(ml.trades) = 1
            /\ ml.trades[1].status = "Closed"
            /\ ml.trades[1].entry_price = ml.trades[1].exit_price)
              => /\ ml.ml_metrics.total_trades = 1
                 /\ ml.ml_metrics.win_rate_pct = FInt(0)

\* buy at the first Close, price up and back, sell at the same Close
C10_Witness ==
    /\ ml.status = "ok"
    /\ Close = <<1, 2, 2, 1>>
    /\ Signal = <<1, 0, 0, 0 - 1>>
    /\ Len(ml.trades) = 1
    /\ ml.trades[1].status = "Closed"
    /\ ml.trades[1].pnl.n < 0
    /\ ml.ml_metrics.win_rate_pct = FInt(0)

\* the run has passed the last bar with the position still LONG
EndsLong == pf.pc = "done" /\ pf.position = "LONG"

\* C11: when the series ends while LONG the position is left open: no exit
\* fee is charged, the last equity is the position at the last Close, and
\* the open position is no trade: total_trades (the number of LONG->FLAT
\* transitions), winning_trades and losing_trades do not count it and
\* pnl_graph has no entry for it.
C11_OpenPositionNotATrade ==
    (EndsLong /\ ml.status = "ok") =>
        /\ \A j \in 1..Len(ml.trades) : ml.trades[j].status = "Open" => ml.trades[j].exit_fees = ZeroAmt
        /\ ml.equity[Len(ml.equity)] = AmtScale(pf.size, Close[Len(Close)], 1)
        /\ ml.ml_metrics.total_trades = Len(pf.trades)
        /\ ml.trading_metrics.winning_trades
              = Cardinality(WinningTrades(ml.trades) \cap ClosedTrades(ml.trades))
        /\ ml.trading_metrics.losing_trades
              = Cardinality(LosingTrades(ml.trades) \cap ClosedTrades(ml.trades))
        /\ graphs.status = "ok" =>
              \A j \in 1..Len(graphs.pnl_points) :
                  \E k \in 1..Len(pf.trades) :
                      /\ pf.trades[k].entry_idx = graphs.pnl_points[j].entry_date
                      /\ pf.trades[k].exit_idx = graphs.pnl_points[j].exit_date

\* C12: win_rate_pct is 100 x winning_trades / total_trades computed from the
\* trade list, and it is 0 (not NaN) when total_trades is 0.
C12_WinRateFromCounts ==
    ml.status = "ok" =>
        ml.ml_metrics.win_rate_pct
            = (IF ml.ml_metrics.total_trades = 0 THEN FInt(0)
               ELSE Num(100 * ml.trading_metrics.winning_trades, ml.ml_metrics.total_trades))

\* C13: running run_market, run_ml and calculate_confidence a second time on
\* the same series, on the same engine or on a new engine built from the
\* same table, returns the results of the first run: the same metric
\* bundles, curves and trades and the same confidence score.
C13_RerunIdentical ==
    first.status = "ok" =>
        /\ market # NoResult => market = first.market
        /\ ml # NoResult => ml = first.ml
        /\ confidence # NotCalled => confidence = first.confidence

\* a second run that traded has returned its confidence score
C13_Witness ==
    /\ first.status = "ok"
    /\ confidence # NotCalled
    /\ ml.ml_metrics.total_trades > 0
    /\ ml = first.ml

HasInvalidSignal == \E j \in 1..Len(Signal) : Signal[j] \notin SignalValues

\* C14: when the SignalSeries holds a value outside {-1, 0, +1}, run_ml fails
\* with ValidationError and returns no equity curve, trade list or metrics;
\* the value is not taken as a HOLD.
C14_InvalidSignalRejected ==
    (HasInvalidSignal /\ ml # NoResult) =>
        /\ ml.status = "raised"
        /\ ml.error = "ValidationError"

\* C15: run_market on a series of fewer than 2 rows and run_ml on an empty
\* series fail with InsufficientDataError: not with another exception and
\* not with a metrics result.
C15_ShortSeriesRejected ==
    /\ (Len(Close) < 2 /\ market # NoResult) =>
          /\ market.status = "raised"
          /\ market.error = "InsufficientDataError"
    /\ (Len(Close) = 0 /\ ml # NoResult) =>
          /\ ml.status = "raised"
          /\ ml.error = "InsufficientDataError"

\* C16: on a series of 1 or 2 rows (fewer than 2 return observations)
\* run_market and run_ml raise nothing and return bundles of finite
\* numbers: no NaN, no infinity.
C16_ShortCurveFinite ==
    Len(Close) \in {1, 2} =>
        /\ market # NoResult =>
              /\ market.status = "ok"
              /\ \A key \in DOMAIN market.metrics : IsFinite(market.metrics[key])
        /\ ml # NoResult =>
              /\ ml.status = "ok"
              /\ \A key \in DOMAIN ml.ml_metrics \ {"total_equity_value", "total_trades"} :
                    IsFinite(ml.ml_metrics[key])

\* (1 - equity[j] / equity[i]) x 100: the decline from date i to date j
DeclinePct(equity, i, j) ==
    NumMul(NumSub(FInt(1), AmtQuot(equity[j], equity[i])), FInt(100))

\* dd is the largest decline of the curve from an earlier (or the same) date
IsLargestDecline(dd, equity) ==
    /\ \E j \in 1..Len(equity) : \E i \in 1..j : dd = DeclinePct(equity, i, j)
    /\ \A j \in 1..Len(equity) : \A i \in 1..j : FLessEq(DeclinePct(equity, i, j), dd)

\* C17: max_drawdown_pct of run_market and of run_ml is a number in
\* [0, 100] and is the largest relative decline of the returned equity curve
\* from its running peak (for run_ml, whose value the model keeps by sign:
\* 0 when the curve never declines and positive when it does).
C17_MaxDrawdownRange ==
    /\ market.status = "ok" =>
          /\ InRange0To100(market.metrics.max_drawdown_pct)
          /\ IsLargestDecline(market.metrics.max_drawdown_pct, market.equity)
    /\ ml.status = "ok" =>
          /\ IsFinite(ml.ml_metrics.max_drawdown_pct)
          /\ ClassSign(ml.ml_metrics.max_drawdown_pct) >= 0
          /\ ClassSign(ml.ml_metrics.max_drawdown_pct) = 0 <=> ~Declines(ml.equity)

\* C18: on a series of 2 rows or more the total_return_pct of run_market is
\* (Close[last] / Close[first] - 1) x 100: the return of the first day is
\* part of it.
C18_MarketTotalReturn ==
    (market # NoResult /\ Len(Close) >= 2) =>
        /\ market.status = "ok"
        /\ market.metrics.total_return_pct
              = NumMul(NumSub(Num(Close[Len(Close)], Close[1]), FInt(1)), FInt(100))

AlwaysBuy == \A j \in 1..Len(Signal) : Signal[j] = 1

\* C19: with Signal +1 at every date of a series whose Close grows, the
\* cagr_pct of the strategy and of the benchmark agree (here: lie on the same
\* side of 0), both being annualised over the same number of return
\* observations.
C19_BuyAndHoldCagr ==
    (market.status = "ok" /\ ml.status = "ok" /\ AlwaysBuy
        /\ Close[Len(Close)] > Close[1]) =>
        /\ Len(PortfolioReturns(ml.equity)) = Len(PctChange(Close))
        /\ ml.ml_metrics.cagr_pct = market.metrics.cagr_pct

\* C20: profit_factor is guarded: without a losing trade (also without any
\* trade) it is 0.0 or a finite sentinel, never NaN or an infinity; with a
\* losing trade it is the summed positive pnl over the magnitude of the
\* summed negative pnl (positive when a trade won, 0 when none did).
C20_ProfitFactorGuarded ==
    ml.status = "ok" =>
        LET wins == ClosedTrades(ml.trades) \cap WinningTrades(ml.trades)
            losses == ClosedTrades(ml.trades) \cap LosingTrades(ml.trades)
            profit_factor == ml.trading_metrics.profit_factor
        IN  /\ IsFinite(profit_factor)
            /\ ClassSign(profit_factor) >= 0
            /\ losses # {} => ClassSign(profit_factor) = (IF wins = {} THEN 0 ELSE 1)

PayloadKeys ==
    {"confidence_score", "ml_metrics", "market_metrics", "trading_metrics",
     "equity_curve", "pnl_graph", "trade_visualization"}

PnlGraphKeys ==
    {"entry_date", "exit_date", "entry_price", "exit_price", "pnl", "return_pct",
     "direction", "is_profit"}

\* C21: a call of /api/v1/backtest/run ends in an error or in a payload that
\* holds all seven fields, in which every pnl_graph entry carries all eight
\* keys and every metric is a finite number.
C21_CompletePayloadOrError ==
    response # NoResult =>
        \/ response.status = "error"
        \/ /\ response.status = "ok"
           /\ DOMAIN response.payload = PayloadKeys
           /\ \A j \in 1..Len(response.payload.pnl_graph) :
                 DOMAIN response.payload.pnl_graph[j] = PnlGraphKeys
           /\ \A x \in PayloadFloats(response.payload) : IsFinite(x)

\* C22: in the equity_curve of build_graphs the entry of the first
\* PriceSeries date has market == 1.0 and ml == 1.0, and every entry's market
\* (ml) value is the benchmark (strategy) equity of the entry's date over the
\* same curve's equity at the first PriceSeries date.
C22_CurvesIndexedAtFirstDate ==
    graphs.status = "ok" =>
        /\ \E i \in 1..Len(graphs.equity_curve) :
              LET e == graphs.equity_curve[i]
              IN  /\ e.date = 1
                  /\ AmtCmp(e.market.value, e.market.base) = 0
                  /\ AmtCmp(e.ml.value, e.ml.base) = 0
        /\ \A i \in 1..Len(graphs.equity_curve) :
              LET e == graphs.equity_curve[i]
              IN  /\ e.market.value = ValueAt(market, e.date)
                  /\ e.market.base = ValueAt(market, 1)
                  /\ e.ml.value = ValueAt(ml, e.date)
                  /\ e.ml.base = ValueAt(ml, 1)

\* C23: the core never mutates its inputs: no step of run_market or run_ml
\* changes the caller's table (its Close and Signal columns and its set of
\* columns), also when the Signal column is missing and the engine writes
\* generated signals.
C23_CallersTableUnchanged ==
    [][table' = table]_vars

\* run_ml has finished on signals the engine generated itself, and the
\* caller's table still has no Signal column
C23_Witness ==
    /\ ml.status = "ok"
    /\ "SMA_Long" \in columns
    /\ "Signal" \in columns
    /\ "Signal" \notin table.columns

\* the simulation run from `p` to the last bar without interruption
RECURSIVE SimulateAll(_, _, _)
SimulateAll(p, close, signal) ==
    IF p.i > Len(close) THEN p
    ELSE SimulateAll(SimulateBar(p, close, Entries(signal), Exits(signal)), close, signal)

\* the signals run_ml trades on a table when nothing else runs
SignalsOf(tbl) ==
    IF "Signal" \in tbl.columns THEN tbl.Signal ELSE GeneratedSignal(tbl.Close)

\* what run_market and run_ml return when each runs alone on a new engine
MarketAlone == RunMarket(table.Close)
MlAlone ==
    RunMl(SimulateAll(PortfolioStart, table.Close, SignalsOf(table)), table.Close,
          degenerate_sharpe)

\* C24: run_market and run_ml on the same engine are independent: in either
\* order and in every interleaving of their steps each returns what it
\* returns when run alone.
C24_MarketAndMlIndependent ==
    /\ market # NoResult => market = MarketAlone
    /\ ml # NoResult => ml = MlAlone

\* both have returned on an engine whose run_ml generated the signals
C24_Witness ==
    /\ market.status = "ok"
    /\ ml.status = "ok"
    /\ "SMA_Long" \in columns
    /\ market = MarketAlone
    /\ ml = MlAlone

\* the trades of `trades` are ordered and do not overlap
NonOverlapping(trades) ==
    \A j \in 1..Len(trades) :
        /\ trades[j].entry_idx < trades[j].exit_idx
        /\ j > 1 => trades[j].entry_idx >= trades[j - 1].exit_idx

\* C25: trades never overlap: one position at most is open at any date, and
\* in the trade list run_ml returns every trade is entered strictly before
\* it is exited and not before the exit of the trade preceding it.
C25_TradesNeverOverlap ==
    /\ pf # NoResult /\ pf.pc \in {"sim", "done"} =>
          /\ pf.position \in {"FLAT", "LONG"}
          /\ pf.position = "FLAT" <=> pf.entry = NoEntry
    /\ ml.status = "ok" => NonOverlapping(ml.trades)

\* the same over the closed trades only
ClosedNonOverlapping ==
    ml.status = "ok" /\ pf.pc = "done" => NonOverlapping(pf.trades)

\* the position after bar j of the finished simulation: LONG from the bar of
\* an entry up to the bar before the exit
LongAfter(j) ==
    \/ \E k \in 1..Len(pf.trades) : pf.trades[k].entry_idx <= j /\ j < pf.trades[k].exit_idx
    \/ pf.position = "LONG" /\ pf.entry.idx <= j

\* C26: while the position is FLAT the strategy equity does not move: on
\* two consecutive dates with the position FLAT after both, the equity
\* is the same whatever the Close prices are.
C26_FlatEquityConstant ==
    ml.status = "ok" /\ pf.pc = "done" =>
        \A j \in 2..Len(ml.equity) :
            ~LongAfter(j - 1) /\ ~LongAfter(j) => ml.equity[j] = ml.equity[j - 1]

\* a finished run that was FLAT over two consecutive dates between which
\* Close moved, after a closed trade
C26_Witness ==
    /\ ml.status = "ok" /\ pf.pc = "done"
    /\ Len(pf.trades) >= 1
    /\ \E j \in 2..Len(ml.equity) :
          /\ ~LongAfter(j - 1) /\ ~LongAfter(j)
          /\ pf.trades[1].exit_idx < j
          /\ Close[j] # Close[j - 1]
          /\ ml.equity[j] = ml.equity[j - 1]

\* C27: stop_alert(user_email, ticker_name) removes every scheduled job of
\* that user/ticker pair and no other job, the jobs of a ticker whose name
\* begins with ticker_name included.
C27_StopRemovesThePairOnly ==
    [][\A email \in Emails, ticker \in Tickers :
          stop_alert(email, ticker) =>
              scheduler' = {job \in scheduler : ~OfPair(job, email, ticker)}]_vars

\* alert_time is two integers separated by ':'
TwoIntegers(time_str) ==
    \E k \in 1..Len(time_str) :
        /\ time_str[k] = ":"
        /\ IsIntLiteral(SubSeq(time_str, 1, k - 1))
        /\ IsIntLiteral(SubSeq(time_str, k + 1, Len(time_str)))

\* C28: create_alert with an alert_time that is not two integers separated
\* by ':' answers HTTP 400 and schedules no job.
C28_BadTimeAnswers400 ==
    [][\A email \in Emails, ticker \in Tickers, time_str \in AlertTimes :
          create_alert(email, ticker, time_str) /\ ~TwoIntegers(time_str) =>
              reply'.code = 400 /\ scheduler' = scheduler]_vars

\* create_alert with such an alert_time schedules no job
BadTimeSchedulesNothing ==
    [][\A email \in Emails, ticker \in Tickers, time_str \in AlertTimes :
          create_alert(email, ticker, time_str) /\ ~TwoIntegers(time_str) =>
              scheduler' = scheduler]_vars

\* the signal API gave usable rows: the request returned 200 with rows that
\* hold data
UsableRows == {"malformed_rows", "rows"}

Rank(source) == CHOOSE k \in 1..Len(Sources) : Sources[k] = source

\* the sources are consulted in order, a later one only when every earlier
\* one yielded no rows
ConsultedInOrder ==
    \A j \in 1..Len(loader.consulted) : \A h \in 1..(j - 1) :
        /\ Rank(loader.consulted[h]) < Rank(loader.consulted[j])
        /\ ~loader.yielded[h]

\* the local cache is written only after a YFinance download with rows
CacheWrittenAfterDownload ==
    loader.cache_written =>
        \E j \in 1..Len(loader.consulted) :
            loader.consulted[j] = "yfinance" /\ loader.yielded[j]

\* when every source is empty the call raises ValueError
AllEmptyRaises ==
    (loader.pc = "done" /\ \A j \in 1..Len(loader.consulted) : ~loader.yielded[j]) =>
        loader.result.status = "raised"

\* every table returned has the columns Open, High, Low, Close, Volume, Signal
ReturnedTableComplete ==
    (loader.pc = "done" /\ loader.result.status = "ok") =>
        StandardColumns \subseteq loader.result.df.columns

\* C30: load_historical_data consults the pipeline, the local per-ticker CSV
\* cache, YFinance and the fallback CSV in this order, a later one only when
\* every earlier one yielded no rows; it writes the local cache only after a
\* YFinance download with rows; it raises ValueError when every source is
\* empty; every table it returns has the columns Open, High, Low, Close,
\* Volume and Signal.
C30_LoaderSourceOrder ==
    loader # NoResult =>
        /\ ConsultedInOrder
        /\ CacheWrittenAfterDownload
        /\ AllEmptyRaises
        /\ ReturnedTableComplete

\* the parts of C30 about the order, the cache and the empty case
LoaderOrderAndCache ==
    loader # NoResult =>
        /\ ConsultedInOrder
        /\ CacheWrittenAfterDownload
        /\ AllEmptyRaises

====
